---- MODULE Spec2Model ----
(***************************************************************************)
(* A model of the IPv6 Neighbour Discovery engine of                       *)
(* kernel/net/ipv6/ndisc.c: the option codec, the emitter and the receive  *)
(* pipeline.  Buffers are sequences of bytes; an offset o into a buffer    *)
(* is the element o + 1 of the sequence.  Pointers into a buffer are       *)
(* offsets, the null pointer is NULL.                                      *)
(***************************************************************************)
EXTENDS Integers, Sequences, FiniteSets, TLC

(***************************************************************************)
(* Bounds of the model.                                                    *)
(***************************************************************************)
MaxOptLen == 24
MaxLenUnits == 2
MaxAddrLen == 5
BodyByte == 1
MaxSteps == 2
MaxRaSteps == 3
MaxNeighSteps == 1
MaxProxyQlen == 0
MaxProbes == 6

(***************************************************************************)
(* Program constants.                                                      *)
(***************************************************************************)
NULL == -1
ND_OPT_PREFIX_INFO_END == 0
ND_OPT_SOURCE_LL_ADDR == 1
ND_OPT_TARGET_LL_ADDR == 2
ND_OPT_PREFIX_INFO == 3
ND_OPT_REDIRECT_HDR == 4
ND_OPT_MTU == 5
ND_OPT_ROUTE_INFO == 24
ND_OPT_RDNSS == 25
ND_OPT_DNSSL == 31
sizeof_nd_opt_hdr == 2

VARIABLES
    obuf,            \* codec: the option area handed to the codec
    olen,            \* codec: opt_len as the caller computed it
    ores,            \* codec: what ndisc_parse_options returned, or "none"
    ocfg,            \* codec: [route_info |-> CONFIG_IPV6_ROUTE_INFO]
    odev,            \* codec: the device whose address option is written
    oin              \* codec: [type, data] given to ndisc_fill_addr_option

ovars == <<obuf, olen, ores, ocfg, odev, oin>>

(***************************************************************************)
(* Byte buffers.                                                           *)
(***************************************************************************)
ByteAt(buf, off) == buf[off + 1]

memset(buf, off, val, n) ==
    [i \in 1..Len(buf) |-> IF i - 1 >= off /\ i - 1 < off + n THEN val ELSE buf[i]]

memcpy(buf, off, src, n) ==
    [i \in 1..Len(buf) |-> IF i - 1 >= off /\ i - 1 < off + n
                           THEN src[i - off] ELSE buf[i]]

(***************************************************************************)
(* ndisc_parse_options.                                                    *)
(***************************************************************************)
NoOptions ==
    [arr |-> [t \in 0..5 |-> NULL],
     ri |-> NULL, ri_end |-> NULL,
     useropts |-> NULL, useropts_end |-> NULL]

IsSingletonType(type) ==
    type \in {ND_OPT_SOURCE_LL_ADDR, ND_OPT_TARGET_LL_ADDR,
              ND_OPT_MTU, ND_OPT_REDIRECT_HDR}

\* Mutant: any option type above RDNSS up to DNSSL counts as a user option.
ndisc_is_useropt_Range(type) == type >= ND_OPT_RDNSS /\ type <= ND_OPT_DNSSL

ndisc_is_useropt(type) == type = ND_OPT_RDNSS \/ type = ND_OPT_DNSSL

\* Mutant: a repeated singleton option replaces the one recorded before.
RecordOption_LastWins(nd, type, pos, cfg) ==
    IF IsSingletonType(type)
    THEN [nd EXCEPT !.arr[type] = pos]
    ELSE IF type = ND_OPT_PREFIX_INFO
    THEN [nd EXCEPT !.arr[ND_OPT_PREFIX_INFO_END] = pos,
                    !.arr[type] = IF @ = NULL THEN pos ELSE @]
    ELSE IF cfg.route_info /\ type = ND_OPT_ROUTE_INFO
    THEN [nd EXCEPT !.ri_end = pos, !.ri = IF @ = NULL THEN pos ELSE @]
    ELSE IF ndisc_is_useropt(type)
    THEN [nd EXCEPT !.useropts_end = pos, !.useropts = IF @ = NULL THEN pos ELSE @]
    ELSE nd

\* One iteration's switch: the option at offset pos, of type type, is recorded.
RecordOption(nd, type, pos, cfg) ==
    IF IsSingletonType(type)
    THEN IF nd.arr[type] # NULL
         THEN nd
         ELSE [nd EXCEPT !.arr[type] = pos]
    ELSE IF type = ND_OPT_PREFIX_INFO
    THEN LET e == [nd EXCEPT !.arr[ND_OPT_PREFIX_INFO_END] = pos]
         IN  IF e.arr[type] = NULL THEN [e EXCEPT !.arr[type] = pos] ELSE e
    ELSE IF cfg.route_info /\ type = ND_OPT_ROUTE_INFO
    THEN LET e == [nd EXCEPT !.ri_end = pos]
         IN  IF e.ri = NULL THEN [e EXCEPT !.ri = pos] ELSE e
    ELSE IF ndisc_is_useropt(type)
    THEN LET e == [nd EXCEPT !.useropts_end = pos]
         IN  IF e.useropts = NULL THEN [e EXCEPT !.useropts = pos] ELSE e
    ELSE nd

\* Mutant: the loop runs while a whole option header remains, and a single
\* trailing byte is left unread.
RECURSIVE ParseLoop_LaxTail(_, _, _, _, _)
ParseLoop_LaxTail(buf, pos, opt_len, nd, cfg) ==
    IF opt_len < sizeof_nd_opt_hdr
    THEN [ok |-> TRUE, opts |-> nd]
    ELSE LET l == ByteAt(buf, pos + 1) * 8
         IN  IF opt_len < l \/ l = 0
             THEN [ok |-> FALSE, opts |-> nd]
             ELSE ParseLoop_LaxTail(buf, pos + l, opt_len - l,
                                    RecordOption(nd, ByteAt(buf, pos), pos, cfg), cfg)

RECURSIVE ParseLoop(_, _, _, _, _)
ParseLoop(buf, pos, opt_len, nd, cfg) ==
    IF opt_len = 0
    THEN [ok |-> TRUE, opts |-> nd]
    ELSE IF opt_len < sizeof_nd_opt_hdr
    THEN [ok |-> FALSE, opts |-> nd]
    ELSE LET l == ByteAt(buf, pos + 1) * 8
         IN  IF opt_len < l \/ l = 0
             THEN [ok |-> FALSE, opts |-> nd]
             ELSE ParseLoop(buf, pos + l, opt_len - l,
                            RecordOption(nd, ByteAt(buf, pos), pos, cfg), cfg)

ndisc_parse_options(buf, opt_len, cfg) ==
    IF opt_len < 0
    THEN [ok |-> FALSE, opts |-> NoOptions]
    ELSE ParseLoop(buf, 0, opt_len, NoOptions, cfg)

(***************************************************************************)
(* Devices and ndisc_fill_addr_option.                                     *)
(***************************************************************************)
ARPHRD_ETHER == "ARPHRD_ETHER"
ARPHRD_INFINIBAND == "ARPHRD_INFINIBAND"

ndisc_addr_option_pad(type) == IF type = ARPHRD_INFINIBAND THEN 6 ELSE 0

NDISC_OPT_SPACE(len) == ((len + 2 + 7) \div 8) * 8

ndisc_opt_addr_space(dev) ==
    NDISC_OPT_SPACE(dev.addr_len + ndisc_addr_option_pad(dev.type))

\* The offset of the address bytes of the option at offset p, or NULL.
ndisc_opt_addr_data(buf, p, dev) ==
    IF ByteAt(buf, p + 1) * 8 # ndisc_opt_addr_space(dev)
    THEN NULL
    ELSE p + sizeof_nd_opt_hdr + ndisc_addr_option_pad(dev.type)

\* Mutant: the bytes after the address are left as skb_put handed them out.
ndisc_fill_addr_option_NoTrail(buf, at, dev, type, data) ==
    LET pad      == ndisc_addr_option_pad(dev.type)
        space    == ndisc_opt_addr_space(dev)
        b1 == [buf EXCEPT ![at + 1] = type]
        b2 == [b1 EXCEPT ![at + 2] = (space \div 8) % 256]
        b3 == memset(b2, at + 2, 0, pad)
    IN  memcpy(b3, at + pad + 2, data, dev.addr_len)

\* buf ends with the `space' bytes skb_put has just handed out, at offset at.
ndisc_fill_addr_option(buf, at, dev, type, data) ==
    LET pad      == ndisc_addr_option_pad(dev.type)
        data_len == dev.addr_len
        space    == ndisc_opt_addr_space(dev)
        b1 == [buf EXCEPT ![at + 1] = type]
        b2 == [b1 EXCEPT ![at + 2] = (space \div 8) % 256]
        b3 == memset(b2, at + 2, 0, pad)
        b4 == memcpy(b3, at + pad + 2, data, data_len)
        rest == (space - pad) - (data_len + 2)
    IN  IF rest > 0
        THEN memset(b4, at + pad + data_len + 2, 0, rest)
        ELSE b4

(***************************************************************************)
(* The receive pipeline and the emitter: addresses, the device, the        *)
(* tables the handlers read and write.                                     *)
(*                                                                         *)
(* An IPv6 address is a record [k, n]: k its class and n its low bits.     *)
(*   "any" the unspecified address, "ll" a link-local unicast address,     *)
(*   "gl" a global unicast address, "sol" the solicited-node multicast     *)
(*   address of the addresses with low bits n, "mc" ff02::n.               *)
(***************************************************************************)
in6addr_any == [k |-> "any", n |-> 0]
in6addr_linklocal_allnodes == [k |-> "mc", n |-> 1]
in6addr_linklocal_allrouters == [k |-> "mc", n |-> 2]
LinkLocal(n) == [k |-> "ll", n |-> n]
Global(n) == [k |-> "gl", n |-> n]
ipv6_addr_any(a) == a = in6addr_any
ipv6_addr_is_multicast(a) == a.k \in {"mc", "sol"}
ipv6_addr_is_solict_mult(a) == a.k = "sol"
addrconf_addr_solict_mult(a) == [k |-> "sol", n |-> a.n]
\* ipv6_addr_type(a) & IPV6_ADDR_LINKLOCAL: fe80::/10, and link-scope multicast
IsLinkLocal(a) == a.k \in {"ll", "mc", "sol"}

(***************************************************************************)
(* Neighbour states and the flags of neigh_update.                         *)
(***************************************************************************)
NUD_NONE == "NUD_NONE"
NUD_INCOMPLETE == "NUD_INCOMPLETE"
NUD_REACHABLE == "NUD_REACHABLE"
NUD_STALE == "NUD_STALE"
NUD_DELAY == "NUD_DELAY"
NUD_PROBE == "NUD_PROBE"
NUD_FAILED == "NUD_FAILED"
NUD_NOARP == "NUD_NOARP"
NUD_PERMANENT == "NUD_PERMANENT"
NUD_VALID == {NUD_PERMANENT, NUD_NOARP, NUD_REACHABLE, NUD_PROBE, NUD_STALE, NUD_DELAY}
NUD_CONNECTED == {NUD_PERMANENT, NUD_NOARP, NUD_REACHABLE}
NEIGH_UPDATE_F_OVERRIDE == "OVERRIDE"
NEIGH_UPDATE_F_WEAK_OVERRIDE == "WEAK_OVERRIDE"
NEIGH_UPDATE_F_OVERRIDE_ISROUTER == "OVERRIDE_ISROUTER"
NEIGH_UPDATE_F_ISROUTER == "ISROUTER"
NEIGH_UPDATE_F_ADMIN == "ADMIN"

\* a link-layer address is a sequence of addr_len bytes; NoLL is the null pointer
NoLL == <<>>
NoNeigh == [present |-> FALSE, nud_state |-> NUD_NONE, ha |-> NoLL, router |-> FALSE]
NoRoute == [present |-> FALSE, expires |-> 0, pref |-> 0, hoplimit |-> 0, mtu |-> 0]

(***************************************************************************)
(* Message types, packet types and interface flags.                        *)
(***************************************************************************)
NDISC_ROUTER_SOLICITATION == 133
NDISC_ROUTER_ADVERTISEMENT == 134
NDISC_NEIGHBOUR_SOLICITATION == 135
NDISC_NEIGHBOUR_ADVERTISEMENT == 136
NDISC_REDIRECT == 137
PACKET_HOST == "PACKET_HOST"
PACKET_MULTICAST == "PACKET_MULTICAST"
PACKET_LOOPBACK == "PACKET_LOOPBACK"
LOCALLY_ENQUEUED == "LOCALLY_ENQUEUED"
IF_RS_SENT == "IF_RS_SENT"
IF_RA_RCVD == "IF_RA_RCVD"
IF_RA_MANAGED == "IF_RA_MANAGED"
IF_RA_OTHERCONF == "IF_RA_OTHERCONF"
NDISC_NODETYPE_UNSPEC == "NDISC_NODETYPE_UNSPEC"
NDISC_NODETYPE_HOST == "NDISC_NODETYPE_HOST"
NDISC_NODETYPE_NODEFAULT == "NDISC_NODETYPE_NODEFAULT"
NDISC_NODETYPE_DEFAULT == "NDISC_NODETYPE_DEFAULT"
IPV6_MIN_MTU == 1280
HZ == 100

VARIABLES
    ndisc_sk,        \* the control socket of ndisc_net_init: [hop_limit, mc_loop]
    net,             \* what the handlers only read: the device, its addresses,
                     \* anycast and proxy entries, devconf_all, the build options
    idev,            \* the interface's IPv6 configuration: if_flags, cnf, nd_parms
    nd_tbl,          \* the neighbour cache: address -> entry
    rt6,             \* the default-router list: router address -> route
    proxy_queue,     \* nd_tbl.proxy_queue: the packets delayed by pneigh_enqueue
    jiffies,         \* the clock
    sent,            \* the packets the last step handed to the output path
    calls,           \* the collaborator calls of the last step
    refs,            \* the references the last step took and still holds
    last,            \* the input of the last step
    tasks            \* the handlers that are under way: where each one is, and its locals

pvars == <<ndisc_sk, net, idev, nd_tbl, rt6, proxy_queue, jiffies, sent, calls, refs, last, tasks>>
vars == <<obuf, olen, ores, ocfg, odev, oin, ndisc_sk, net, idev, nd_tbl, rt6, proxy_queue, jiffies, sent, calls, refs, last, tasks>>

(***************************************************************************)
(* References.  A lookup that returns a held reference is Hold; a release  *)
(* or a call that takes the reference over is Put.  refs.held is what is   *)
(* held now, refs.taken what the step took in all, refs.bad is set by a    *)
(* release of a reference that is not held.                                *)
(***************************************************************************)
RefKinds == {"neigh", "ifp", "idev", "rt", "dst", "peer"}
NoRefs == [held |-> [k \in RefKinds |-> 0], taken |-> [k \in RefKinds |-> 0], bad |-> FALSE]
Hold(S, k) == [S EXCEPT !.refs.held[k] = @ + 1, !.refs.taken[k] = @ + 1]
Put(S, k) == IF S.refs.held[k] = 0 THEN [S EXCEPT !.refs.bad = TRUE] ELSE [S EXCEPT !.refs.held[k] = @ - 1]

\* one collaborator call: the function, an address, a number, a flag
Call(fn, a, n, b) == [fn |-> fn, a |-> a, n |-> n, b |-> b]
Invoke(S, c) == [S EXCEPT !.calls = Append(@, c)]

\* what a handler works on: the tables as they are, and nothing done yet
Begin == [nd_tbl |-> nd_tbl, rt6 |-> rt6, idev |-> idev, proxy_queue |-> proxy_queue, sent |-> <<>>, calls |-> <<>>, refs |-> NoRefs]

(***************************************************************************)
(* The collaborators the handlers look things up in.  env holds the        *)
(* outcome of every call that can fail for a reason outside the model      *)
(* (allocation, routing, netfilter).                                       *)
(***************************************************************************)
NoIfaddr == [present |-> FALSE, flags |-> {}]
IFA_F_TENTATIVE == "IFA_F_TENTATIVE"
IFA_F_OPTIMISTIC == "IFA_F_OPTIMISTIC"

\* ipv6_get_ifaddr(net, addr, dev, 1): the local address entry, held, or none
ipv6_get_ifaddr(addr) == IF addr \in DOMAIN net.addrs THEN net.addrs[addr] ELSE NoIfaddr
\* ipv6_chk_addr(net, addr, dev, strict): addr is a local address that has passed DAD
ipv6_chk_addr(addr) == ipv6_get_ifaddr(addr).present /\ IFA_F_TENTATIVE \notin ipv6_get_ifaddr(addr).flags
ipv6_chk_acast_addr(addr) == addr \in net.acast
\* ipv6_get_lladdr(dev, &addr, banned): the link-local addresses without a banned flag
ipv6_get_lladdr(banned) ==
    {a \in DOMAIN net.addrs : a.k = "ll" /\ net.addrs[a].present /\ net.addrs[a].flags \cap banned = {}}
\* __pneigh_lookup(&nd_tbl, net, pkey, dev)
pneigh_lookup(addr) == IF addr \in DOMAIN net.pneigh THEN net.pneigh[addr] ELSE [present |-> FALSE, router |-> FALSE]
neigh_lookup(S, addr) == IF addr \in DOMAIN S.nd_tbl THEN S.nd_tbl[addr] ELSE NoNeigh

ndisc_net_init_DefaultHops == [hop_limit |-> 64, mc_loop |-> 0]

\* the control socket as ndisc_net_init leaves it
ndisc_net_init == [hop_limit |-> 255, mc_loop |-> 0]

\* the ICMPv6 header and message body a sender builds; a field the designated
\* initialiser does not name is zero
NoSkb == [type |-> 0, code |-> 0, router |-> FALSE, solicited |-> FALSE, override |-> FALSE,
          target |-> in6addr_any, dest |-> in6addr_any, opt |-> <<>>, has_dst |-> FALSE]

ip6_nd_hdr(skb, saddr, daddr, hop_limit, len) ==
    [type |-> skb.type, code |-> skb.code, router |-> skb.router, solicited |-> skb.solicited,
     override |-> skb.override, target |-> skb.target, dest |-> skb.dest, opt |-> skb.opt,
     hop_limit |-> hop_limit, saddr |-> saddr, daddr |-> daddr, payload_len |-> len]

\* sizeof(struct nd_msg), sizeof(struct rs_msg), sizeof(struct rd_msg)
sizeof_nd_msg == 24
sizeof_rs_msg == 8
sizeof_rd_msg == 40
sizeof_ipv6hdr == 40
MsgSize(type) ==
    IF type = NDISC_ROUTER_SOLICITATION THEN sizeof_rs_msg
    ELSE IF type = NDISC_REDIRECT THEN sizeof_rd_msg ELSE sizeof_nd_msg

\* Mutant: the IP output counter moves after the hook, as the ICMPv6 ones do.
ndisc_send_skb_OutAfterHook(S, skb, daddr, saddr, env) ==
    IF ~skb.has_dst /\ ~env.dst_ok
    THEN S
    ELSE LET out == ip6_nd_hdr(skb, saddr, daddr, ndisc_sk.hop_limit, MsgSize(skb.type) + Len(skb.opt))
         IN  [S EXCEPT !.sent = Append(@, [pkt |-> out, nf_err |-> ~env.nf_ok,
                                              mib_out |-> env.nf_ok, mib_outmsgs |-> env.nf_ok])]

\* The packet is handed to the output path unless no route can be allocated
\* for it; nf_err is what NF_HOOK returned, and the ICMPv6 counters move
\* only when it is zero.
ndisc_send_skb(S, skb, daddr, saddr, env) ==
    IF ~skb.has_dst /\ ~env.dst_ok
    THEN S
    ELSE LET out == ip6_nd_hdr(skb, saddr, daddr, ndisc_sk.hop_limit, MsgSize(skb.type) + Len(skb.opt))
         IN  [S EXCEPT !.sent = Append(@, [pkt |-> out, nf_err |-> ~env.nf_ok,
                                              mib_out |-> TRUE, mib_outmsgs |-> env.nf_ok])]

\* skb_put hands out space bytes the allocator left as they were
skb_put(dev, env) == [i \in 1..ndisc_opt_addr_space(dev) |-> env.garbage]

\* Mutant: the advertisement never carries the target link-layer address.
ndisc_send_na_NoOption(S, daddr, solicited_addr, router, solicited, override, inc_opt, env) ==
    LET dev == net.dev
        ifp == ipv6_get_ifaddr(solicited_addr)
        S1  == IF ifp.present THEN Put(Hold(S, "ifp"), "ifp") ELSE S
        src_addr  == IF ifp.present THEN solicited_addr ELSE net.saddr
        override1 == IF ifp.present /\ IFA_F_OPTIMISTIC \in ifp.flags THEN FALSE ELSE override
        inc_opt1  == IF ifp.present THEN inc_opt \/ S.idev.cnf.force_tllao ELSE inc_opt
        inc_opt2  == FALSE
        msg == [NoSkb EXCEPT !.type = NDISC_NEIGHBOUR_ADVERTISEMENT, !.router = router,
                             !.solicited = solicited, !.override = override1,
                             !.target = solicited_addr]
        skb == IF inc_opt2
               THEN [msg EXCEPT !.opt = ndisc_fill_addr_option(skb_put(dev, env), 0, dev, ND_OPT_TARGET_LL_ADDR, dev.dev_addr)]
               ELSE msg
    IN  IF ~ifp.present /\ ~env.saddr_ok THEN S1
        ELSE IF ~env.alloc_ok THEN S1
        ELSE ndisc_send_skb(S1, skb, daddr, src_addr, env)

\* Mutant: an address of the interface is always advertised with the option.
ndisc_send_na_LocalOption(S, daddr, solicited_addr, router, solicited, override, inc_opt, env) ==
    LET dev == net.dev
        ifp == ipv6_get_ifaddr(solicited_addr)
        S1  == IF ifp.present THEN Put(Hold(S, "ifp"), "ifp") ELSE S
        src_addr  == IF ifp.present THEN solicited_addr ELSE net.saddr
        override1 == IF ifp.present /\ IFA_F_OPTIMISTIC \in ifp.flags THEN FALSE ELSE override
        inc_opt1  == IF ifp.present THEN TRUE ELSE inc_opt
        inc_opt2  == IF dev.addr_len = 0 THEN FALSE ELSE inc_opt1
        msg == [NoSkb EXCEPT !.type = NDISC_NEIGHBOUR_ADVERTISEMENT, !.router = router,
                             !.solicited = solicited, !.override = override1,
                             !.target = solicited_addr]
        skb == IF inc_opt2
               THEN [msg EXCEPT !.opt = ndisc_fill_addr_option(skb_put(dev, env), 0, dev, ND_OPT_TARGET_LL_ADDR, dev.dev_addr)]
               ELSE msg
    IN  IF ~ifp.present /\ ~env.saddr_ok THEN S1
        ELSE IF ~env.alloc_ok THEN S1
        ELSE ndisc_send_skb(S1, skb, daddr, src_addr, env)

ndisc_send_na(S, daddr, solicited_addr, router, solicited, override, inc_opt, env) ==
    LET dev == net.dev
        ifp == ipv6_get_ifaddr(solicited_addr)
        S1  == IF ifp.present THEN Put(Hold(S, "ifp"), "ifp") ELSE S
        src_addr  == IF ifp.present THEN solicited_addr ELSE net.saddr
        override1 == IF ifp.present /\ IFA_F_OPTIMISTIC \in ifp.flags THEN FALSE ELSE override
        inc_opt1  == IF ifp.present THEN inc_opt \/ S.idev.cnf.force_tllao ELSE inc_opt
        inc_opt2  == IF dev.addr_len = 0 THEN FALSE ELSE inc_opt1
        msg == [NoSkb EXCEPT !.type = NDISC_NEIGHBOUR_ADVERTISEMENT, !.router = router,
                             !.solicited = solicited, !.override = override1,
                             !.target = solicited_addr]
        skb == IF inc_opt2
               THEN [msg EXCEPT !.opt = ndisc_fill_addr_option(skb_put(dev, env), 0, dev, ND_OPT_TARGET_LL_ADDR, dev.dev_addr)]
               ELSE msg
    IN  IF ~ifp.present /\ ~env.saddr_ok THEN S1
        ELSE IF ~env.alloc_ok THEN S1
        ELSE ndisc_send_skb(S1, skb, daddr, src_addr, env)

\* saddr is NoAddr when the caller passes NULL
NoAddr == [k |-> "null", n |-> 0]
ndisc_send_ns(S, solicit, daddr, saddr, env) ==
    LET dev == net.dev
        lls == ipv6_get_lladdr({IFA_F_TENTATIVE, IFA_F_OPTIMISTIC})
        saddr1 == IF saddr = NoAddr THEN (IF lls = {} THEN NoAddr ELSE CHOOSE a \in lls : \A b \in lls : a.n <= b.n) ELSE saddr
        inc_opt == IF ipv6_addr_any(saddr1) THEN 0 ELSE dev.addr_len
        msg == [NoSkb EXCEPT !.type = NDISC_NEIGHBOUR_SOLICITATION, !.target = solicit]
        skb == IF inc_opt # 0
               THEN [msg EXCEPT !.opt = ndisc_fill_addr_option(skb_put(dev, env), 0, dev, ND_OPT_SOURCE_LL_ADDR, dev.dev_addr)]
               ELSE msg
    IN  IF saddr1 = NoAddr THEN S
        ELSE IF ~env.alloc_ok THEN S
        ELSE ndisc_send_skb(S, skb, daddr, saddr1, env)

ndisc_send_rs(S, saddr, daddr, env) ==
    LET dev == net.dev
        ifp == ipv6_get_ifaddr(saddr)
        optimistic_dad == net.config.optimistic_dad /\ dev.addr_len # 0
        S1  == IF optimistic_dad /\ ifp.present THEN Put(Hold(S, "ifp"), "ifp") ELSE S
        send_sllao == IF optimistic_dad
                      THEN (IF ifp.present /\ IFA_F_OPTIMISTIC \notin ifp.flags THEN dev.addr_len ELSE 0)
                      ELSE dev.addr_len
        msg == [NoSkb EXCEPT !.type = NDISC_ROUTER_SOLICITATION]
        skb == IF send_sllao # 0
               THEN [msg EXCEPT !.opt = ndisc_fill_addr_option(skb_put(dev, env), 0, dev, ND_OPT_SOURCE_LL_ADDR, dev.dev_addr)]
               ELSE msg
    IN  IF ~env.alloc_ok THEN S1
        ELSE ndisc_send_skb(S1, skb, daddr, saddr, env)

(***************************************************************************)
(* The neighbour cache.                                                    *)
(***************************************************************************)
ZeroLL(dev) == [i \in 1..dev.addr_len |-> 0]

\* ipv6_eth_mc_map: 33:33 and the last four bytes of the address, which
\* are 0:0:0:n for ff02::n and ff:0:0:n for a solicited-node address
ipv6_eth_mc_map(addr) == <<51, 51, IF addr.k = "sol" THEN 255 ELSE 0, 0, 0, addr.n>>

\* ndisc_mc_map(addr, buf, dev, 1): the buffer it leaves
ndisc_mc_map(addr, dev) ==
    IF dev.type = ARPHRD_ETHER THEN ipv6_eth_mc_map(addr)
    ELSE SubSeq(dev.broadcast, 1, dev.addr_len)

\* the entry neigh_create leaves once ndisc_constructor has run on it
ndisc_constructor(addr) ==
    LET dev == net.dev
        fresh == [present |-> TRUE, nud_state |-> NUD_NONE, ha |-> ZeroLL(dev), router |-> FALSE]
    IN  IF ~dev.header_ops THEN [fresh EXCEPT !.nud_state = NUD_NOARP]
        ELSE IF ipv6_addr_is_multicast(addr)
        THEN [fresh EXCEPT !.nud_state = NUD_NOARP, !.ha = ndisc_mc_map(addr, dev)]
        ELSE IF dev.flags \cap {"IFF_NOARP", "IFF_LOOPBACK"} # {}
        THEN [fresh EXCEPT !.nud_state = NUD_NOARP, !.ha = dev.dev_addr]
        ELSE IF "IFF_POINTOPOINT" \in dev.flags
        THEN [fresh EXCEPT !.nud_state = NUD_NOARP, !.ha = dev.broadcast]
        ELSE fresh

\* whether __neigh_lookup(&nd_tbl, addr, dev, creat) returns an entry:
\* neigh_create fails without memory and when the constructor finds no in6_dev
neigh_found(S, addr, creat, env) ==
    neigh_lookup(S, addr).present \/ (creat /\ net.has_idev /\ env.neigh_ok)

\* __neigh_lookup: the table after it, with the reference it returns held
neigh_lookup_create(S, addr, creat, env) ==
    IF neigh_lookup(S, addr).present THEN Hold(S, "neigh")
    ELSE IF ~creat THEN S
    ELSE IF ~net.has_idev THEN S
    ELSE IF ~env.neigh_ok THEN Put(Hold(S, "idev"), "idev")
    ELSE Hold(Put(Hold([S EXCEPT !.nd_tbl[addr] = ndisc_constructor(addr)], "idev"), "idev"), "neigh")

\* neigh_update of the generic cache on the entry n
neigh_update(n, lladdr, new, flags) ==
    LET dev == net.dev
        old == n.nud_state
        \* lladdr == neigh->ha after the comparison of the new address with the cached one
        same == \/ dev.addr_len = 0
                \/ lladdr = NoLL
                \/ (old \in NUD_VALID /\ lladdr = n.ha)
        addr == IF same THEN n.ha ELSE lladdr
        isrouter(m) == IF NEIGH_UPDATE_F_OVERRIDE_ISROUTER \in flags
                       THEN [m EXCEPT !.router = NEIGH_UPDATE_F_ISROUTER \in flags]
                       ELSE m
    IN  IF NEIGH_UPDATE_F_ADMIN \notin flags /\ old \in {NUD_NOARP, NUD_PERMANENT} THEN n
        ELSE IF new \notin NUD_VALID THEN [n EXCEPT !.nud_state = new]
        ELSE IF dev.addr_len # 0 /\ lladdr = NoLL /\ old \notin NUD_VALID THEN n
        ELSE IF old \in NUD_VALID /\ ~same /\ NEIGH_UPDATE_F_OVERRIDE \notin flags
        THEN (IF NEIGH_UPDATE_F_WEAK_OVERRIDE \in flags /\ old \in NUD_CONNECTED
              THEN [n EXCEPT !.nud_state = NUD_STALE]
              ELSE n)
        ELSE IF old \in NUD_VALID /\ same /\ new = NUD_STALE
                /\ (NEIGH_UPDATE_F_WEAK_OVERRIDE \in flags \/ old \in NUD_CONNECTED)
        THEN isrouter(n)
        ELSE isrouter([n EXCEPT !.nud_state = new, !.ha = addr])

UpdateNeigh(S, addr, lladdr, new, flags) ==
    [S EXCEPT !.nd_tbl[addr] = neigh_update(@, lladdr, new, flags)]

\* the bytes an address option carries at offset off, NoLL for the null pointer
LLBytes(opt, off) ==
    IF off = NULL THEN NoLL ELSE SubSeq(opt, off + 1, off + net.dev.addr_len)

\* the address of option type t of a parsed message, as the handlers read it
OptAddrData(skb, r, t) ==
    IF r.opts.arr[t] = NULL THEN NULL ELSE ndisc_opt_addr_data(skb.opt, r.opts.arr[t], net.dev)

\* pneigh_enqueue of the generic cache: the clone is dropped when the queue is full
pneigh_enqueue(S, skb) ==
    IF Len(S.proxy_queue) > S.idev.nd_parms.proxy_qlen THEN S
    ELSE [S EXCEPT !.proxy_queue = Append(@, [skb EXCEPT !.cb_flags = @ \cup {LOCALLY_ENQUEUED}])]

(***************************************************************************)
(* ndisc_recv_ns                                                           *)
(***************************************************************************)
\* Mutant: every solicitor gets a neighbour entry.
recv_ns_respond_AlwaysCreate(S, skb, lladdr, has_ifp, is_router0, env) ==
    LET dev == net.dev
        dad == ipv6_addr_any(skb.saddr)
        inc == ipv6_addr_is_multicast(skb.daddr)
        is_router == IF is_router0 < 0 THEN S.idev.cnf.forwarding ELSE is_router0 = 1
        creat == TRUE
        found == neigh_found(S, skb.saddr, creat, env)
        S1 == neigh_lookup_create(S, skb.saddr, creat, env)
        S2 == IF found
              THEN UpdateNeigh(S1, skb.saddr, LLBytes(skb.opt, lladdr), NUD_STALE,
                               {NEIGH_UPDATE_F_WEAK_OVERRIDE, NEIGH_UPDATE_F_OVERRIDE})
              ELSE S1
        S3 == IF found \/ ~dev.header_ops
              THEN ndisc_send_na(S2, skb.saddr, skb.target, is_router, TRUE, has_ifp /\ inc, inc, env)
              ELSE S2
        S4 == IF found THEN Put(S3, "neigh") ELSE S3
        S5 == IF dad
              THEN ndisc_send_na(S, in6addr_linklocal_allnodes, skb.target, is_router, FALSE, has_ifp, TRUE, env)
              ELSE S4
    IN  Put(S5, IF has_ifp THEN "ifp" ELSE "idev")

\* Mutant: the answer to a solicitation always overrides.
recv_ns_respond_AlwaysOverride(S, skb, lladdr, has_ifp, is_router0, env) ==
    LET dev == net.dev
        dad == ipv6_addr_any(skb.saddr)
        inc == ipv6_addr_is_multicast(skb.daddr)
        is_router == IF is_router0 < 0 THEN S.idev.cnf.forwarding ELSE is_router0 = 1
        creat == ~inc \/ lladdr # NULL \/ dev.addr_len = 0
        found == neigh_found(S, skb.saddr, creat, env)
        S1 == neigh_lookup_create(S, skb.saddr, creat, env)
        S2 == IF found
              THEN UpdateNeigh(S1, skb.saddr, LLBytes(skb.opt, lladdr), NUD_STALE,
                               {NEIGH_UPDATE_F_WEAK_OVERRIDE, NEIGH_UPDATE_F_OVERRIDE})
              ELSE S1
        S3 == IF found \/ ~dev.header_ops
              THEN ndisc_send_na(S2, skb.saddr, skb.target, is_router, TRUE, TRUE, inc, env)
              ELSE S2
        S4 == IF found THEN Put(S3, "neigh") ELSE S3
        S5 == IF dad
              THEN ndisc_send_na(S, in6addr_linklocal_allnodes, skb.target, is_router, FALSE, has_ifp, TRUE, env)
              ELSE S4
    IN  Put(S5, IF has_ifp THEN "ifp" ELSE "idev")

\* Mutant: the answer to a probe always overrides.
recv_ns_respond_DadOverride(S, skb, lladdr, has_ifp, is_router0, env) ==
    LET dev == net.dev
        dad == ipv6_addr_any(skb.saddr)
        inc == ipv6_addr_is_multicast(skb.daddr)
        is_router == IF is_router0 < 0 THEN S.idev.cnf.forwarding ELSE is_router0 = 1
        creat == ~inc \/ lladdr # NULL \/ dev.addr_len = 0
        found == neigh_found(S, skb.saddr, creat, env)
        S1 == neigh_lookup_create(S, skb.saddr, creat, env)
        S2 == IF found
              THEN UpdateNeigh(S1, skb.saddr, LLBytes(skb.opt, lladdr), NUD_STALE,
                               {NEIGH_UPDATE_F_WEAK_OVERRIDE, NEIGH_UPDATE_F_OVERRIDE})
              ELSE S1
        S3 == IF found \/ ~dev.header_ops
              THEN ndisc_send_na(S2, skb.saddr, skb.target, is_router, TRUE, has_ifp /\ inc, inc, env)
              ELSE S2
        S4 == IF found THEN Put(S3, "neigh") ELSE S3
        S5 == IF dad
              THEN ndisc_send_na(S, in6addr_linklocal_allnodes, skb.target, is_router, FALSE, TRUE, TRUE, env)
              ELSE S4
    IN  Put(S5, IF has_ifp THEN "ifp" ELSE "idev")

\* from "if (is_router < 0)" to the end of the function
recv_ns_respond(S, skb, lladdr, has_ifp, is_router0, env) ==
    LET dev == net.dev
        dad == ipv6_addr_any(skb.saddr)
        inc == ipv6_addr_is_multicast(skb.daddr)
        is_router == IF is_router0 < 0 THEN S.idev.cnf.forwarding ELSE is_router0 = 1
        creat == ~inc \/ lladdr # NULL \/ dev.addr_len = 0
        found == neigh_found(S, skb.saddr, creat, env)
        S1 == neigh_lookup_create(S, skb.saddr, creat, env)
        S2 == IF found
              THEN UpdateNeigh(S1, skb.saddr, LLBytes(skb.opt, lladdr), NUD_STALE,
                               {NEIGH_UPDATE_F_WEAK_OVERRIDE, NEIGH_UPDATE_F_OVERRIDE})
              ELSE S1
        S3 == IF found \/ ~dev.header_ops
              THEN ndisc_send_na(S2, skb.saddr, skb.target, is_router, TRUE, has_ifp /\ inc, inc, env)
              ELSE S2
        S4 == IF found THEN Put(S3, "neigh") ELSE S3
        S5 == IF dad
              THEN ndisc_send_na(S, in6addr_linklocal_allnodes, skb.target, is_router, FALSE, has_ifp, TRUE, env)
              ELSE S4
    IN  Put(S5, IF has_ifp THEN "ifp" ELSE "idev")

\* Mutant: a solicitation from the unspecified address is answered wherever it was sent.
ndisc_recv_ns_AnyDest(S, skb, env) ==
    LET dev == net.dev
        dad == ipv6_addr_any(skb.saddr)
        r   == ndisc_parse_options(skb.opt, Len(skb.opt), net.config)
        lladdr == OptAddrData(skb, r, ND_OPT_SOURCE_LL_ADDR)
        inc == ipv6_addr_is_multicast(skb.daddr)
        ifp == ipv6_get_ifaddr(skb.target)
        acast == ipv6_chk_acast_addr(skb.target)
        proxy == /\ S.idev.cnf.forwarding
                 /\ (net.devconf_all.proxy_ndp \/ S.idev.cnf.proxy_ndp)
                 /\ pneigh_lookup(skb.target).present
        is_router == IF ~acast /\ proxy THEN (IF pneigh_lookup(skb.target).router THEN 1 ELSE 0) ELSE -1
    IN  IF skb.short THEN S
        ELSE IF ipv6_addr_is_multicast(skb.target) THEN S
        ELSE IF ~r.ok THEN S
        ELSE IF r.opts.arr[ND_OPT_SOURCE_LL_ADDR] # NULL /\ lladdr = NULL THEN S
        ELSE IF r.opts.arr[ND_OPT_SOURCE_LL_ADDR] # NULL /\ dad THEN S
        ELSE IF ifp.present
        THEN (IF ifp.flags \cap {IFA_F_TENTATIVE, IFA_F_OPTIMISTIC} # {} /\ dad
              THEN Invoke(Put(Hold(S, "ifp"), "ifp"), Call("addrconf_dad_failure", skb.target, 0, FALSE))
              ELSE IF ifp.flags \cap {IFA_F_TENTATIVE, IFA_F_OPTIMISTIC} # {} /\ IFA_F_OPTIMISTIC \notin ifp.flags
              THEN Put(Hold(S, "ifp"), "ifp")
              ELSE recv_ns_respond(Hold(S, "ifp"), skb, lladdr, TRUE, -1, env))
        ELSE IF ~net.has_idev THEN S
        ELSE IF acast \/ proxy
        THEN (IF /\ LOCALLY_ENQUEUED \notin skb.cb_flags
                 /\ skb.pkt_type # PACKET_HOST
                 /\ inc
                 /\ S.idev.nd_parms.proxy_delay # 0
              THEN Put(IF env.clone_ok THEN pneigh_enqueue(Hold(S, "idev"), skb) ELSE Hold(S, "idev"), "idev")
              ELSE recv_ns_respond(Hold(S, "idev"), skb, lladdr, FALSE, is_router, env))
        ELSE Put(Hold(S, "idev"), "idev")

\* Mutant: a probe for an address still under DAD is dropped and nothing is reported.
ndisc_recv_ns_IgnoreCollision(S, skb, env) ==
    LET dev == net.dev
        dad == ipv6_addr_any(skb.saddr)
        r   == ndisc_parse_options(skb.opt, Len(skb.opt), net.config)
        lladdr == OptAddrData(skb, r, ND_OPT_SOURCE_LL_ADDR)
        inc == ipv6_addr_is_multicast(skb.daddr)
        ifp == ipv6_get_ifaddr(skb.target)
        acast == ipv6_chk_acast_addr(skb.target)
        proxy == /\ S.idev.cnf.forwarding
                 /\ (net.devconf_all.proxy_ndp \/ S.idev.cnf.proxy_ndp)
                 /\ pneigh_lookup(skb.target).present
        is_router == IF ~acast /\ proxy THEN (IF pneigh_lookup(skb.target).router THEN 1 ELSE 0) ELSE -1
    IN  IF skb.short THEN S
        ELSE IF ipv6_addr_is_multicast(skb.target) THEN S
        ELSE IF dad /\ ~ipv6_addr_is_solict_mult(skb.daddr) THEN S
        ELSE IF ~r.ok THEN S
        ELSE IF r.opts.arr[ND_OPT_SOURCE_LL_ADDR] # NULL /\ lladdr = NULL THEN S
        ELSE IF r.opts.arr[ND_OPT_SOURCE_LL_ADDR] # NULL /\ dad THEN S
        ELSE IF ifp.present
        THEN (IF ifp.flags \cap {IFA_F_TENTATIVE, IFA_F_OPTIMISTIC} # {} /\ dad
              THEN Put(Hold(S, "ifp"), "ifp")
              ELSE IF ifp.flags \cap {IFA_F_TENTATIVE, IFA_F_OPTIMISTIC} # {} /\ IFA_F_OPTIMISTIC \notin ifp.flags
              THEN Put(Hold(S, "ifp"), "ifp")
              ELSE recv_ns_respond(Hold(S, "ifp"), skb, lladdr, TRUE, -1, env))
        ELSE IF ~net.has_idev THEN S
        ELSE IF acast \/ proxy
        THEN (IF /\ LOCALLY_ENQUEUED \notin skb.cb_flags
                 /\ skb.pkt_type # PACKET_HOST
                 /\ inc
                 /\ S.idev.nd_parms.proxy_delay # 0
              THEN Put(IF env.clone_ok THEN pneigh_enqueue(Hold(S, "idev"), skb) ELSE Hold(S, "idev"), "idev")
              ELSE recv_ns_respond(Hold(S, "idev"), skb, lladdr, FALSE, is_router, env))
        ELSE Put(Hold(S, "idev"), "idev")

ndisc_recv_ns(S, skb, env) ==
    LET dev == net.dev
        dad == ipv6_addr_any(skb.saddr)
        r   == ndisc_parse_options(skb.opt, Len(skb.opt), net.config)
        lladdr == OptAddrData(skb, r, ND_OPT_SOURCE_LL_ADDR)
        inc == ipv6_addr_is_multicast(skb.daddr)
        ifp == ipv6_get_ifaddr(skb.target)
        acast == ipv6_chk_acast_addr(skb.target)
        proxy == /\ S.idev.cnf.forwarding
                 /\ (net.devconf_all.proxy_ndp \/ S.idev.cnf.proxy_ndp)
                 /\ pneigh_lookup(skb.target).present
        is_router == IF ~acast /\ proxy THEN (IF pneigh_lookup(skb.target).router THEN 1 ELSE 0) ELSE -1
    IN  IF skb.short THEN S
        ELSE IF ipv6_addr_is_multicast(skb.target) THEN S
        ELSE IF dad /\ ~ipv6_addr_is_solict_mult(skb.daddr) THEN S
        ELSE IF ~r.ok THEN S
        ELSE IF r.opts.arr[ND_OPT_SOURCE_LL_ADDR] # NULL /\ lladdr = NULL THEN S
        ELSE IF r.opts.arr[ND_OPT_SOURCE_LL_ADDR] # NULL /\ dad THEN S
        ELSE IF ifp.present
        THEN (IF ifp.flags \cap {IFA_F_TENTATIVE, IFA_F_OPTIMISTIC} # {} /\ dad
              THEN Invoke(Put(Hold(S, "ifp"), "ifp"), Call("addrconf_dad_failure", skb.target, 0, FALSE))
              ELSE IF ifp.flags \cap {IFA_F_TENTATIVE, IFA_F_OPTIMISTIC} # {} /\ IFA_F_OPTIMISTIC \notin ifp.flags
              THEN Put(Hold(S, "ifp"), "ifp")
              ELSE recv_ns_respond(Hold(S, "ifp"), skb, lladdr, TRUE, -1, env))
        ELSE IF ~net.has_idev THEN S
        ELSE IF acast \/ proxy
        THEN (IF /\ LOCALLY_ENQUEUED \notin skb.cb_flags
                 /\ skb.pkt_type # PACKET_HOST
                 /\ inc
                 /\ S.idev.nd_parms.proxy_delay # 0
              THEN Put(IF env.clone_ok THEN pneigh_enqueue(Hold(S, "idev"), skb) ELSE Hold(S, "idev"), "idev")
              ELSE recv_ns_respond(Hold(S, "idev"), skb, lladdr, FALSE, is_router, env))
        ELSE Put(Hold(S, "idev"), "idev")

\* Mutant: the delayed solicitation is handled as if it had just arrived.
pndisc_redo_Unmarked(S, skb, env) ==
    Invoke(ndisc_recv_ns(S, [skb EXCEPT !.cb_flags = {}], env), Call("kfree_skb", skb.target, 0, FALSE))

\* pndisc_redo: the proxy timer hands a delayed solicitation back, and the
\* clone is freed
pndisc_redo(S, skb, env) ==
    Invoke(ndisc_recv_ns(S, skb, env), Call("kfree_skb", skb.target, 0, FALSE))

(***************************************************************************)
(* The default-router list of the routing collaborator.                    *)
(***************************************************************************)
\* rt6_get_dflt_router(addr, dev): the route, held, or none
rt6_get_dflt_router(S, addr) == IF addr \in DOMAIN S.rt6 THEN S.rt6[addr] ELSE NoRoute
\* ip6_del_rt(rt) unlinks the route and takes the caller's reference over
ip6_del_rt(S, addr) == Put([S EXCEPT !.rt6[addr] = NoRoute], "rt")

(***************************************************************************)
(* ndisc_recv_na                                                           *)
(***************************************************************************)
\* Mutant: the override bit of the advertisement is not passed on.
ndisc_recv_na_NoOverride(S, skb, env) ==
    LET dev == net.dev
        r   == ndisc_parse_options(skb.opt, Len(skb.opt), net.config)
        lladdr == OptAddrData(skb, r, ND_OPT_TARGET_LL_ADDR)
        ifp == ipv6_get_ifaddr(skb.target)
        n   == neigh_lookup(S, skb.target)
        own_proxy == /\ lladdr # NULL
                     /\ LLBytes(skb.opt, lladdr) = dev.dev_addr
                     /\ net.devconf_all.forwarding
                     /\ net.devconf_all.proxy_ndp
                     /\ pneigh_lookup(skb.target).present
        S1 == Hold(S, "neigh")
        S2 == UpdateNeigh(S1, skb.target, LLBytes(skb.opt, lladdr),
                          IF skb.solicited THEN NUD_REACHABLE ELSE NUD_STALE,
                          {NEIGH_UPDATE_F_WEAK_OVERRIDE, NEIGH_UPDATE_F_OVERRIDE_ISROUTER}
                            \cup (IF skb.router THEN {NEIGH_UPDATE_F_ISROUTER} ELSE {}))
        \* (old_flags & ~neigh->flags) & NTF_ROUTER: router to host
        S3 == IF n.router /\ ~S2.nd_tbl[skb.target].router /\ rt6_get_dflt_router(S2, skb.saddr).present
              THEN ip6_del_rt(Hold(S2, "rt"), skb.saddr)
              ELSE S2
    IN  IF skb.short THEN S
        ELSE IF ipv6_addr_is_multicast(skb.target) THEN S
        ELSE IF ipv6_addr_is_multicast(skb.daddr) /\ skb.solicited THEN S
        ELSE IF ~r.ok THEN S
        ELSE IF r.opts.arr[ND_OPT_TARGET_LL_ADDR] # NULL /\ lladdr = NULL THEN S
        ELSE IF ifp.present
        THEN (IF skb.pkt_type # PACKET_LOOPBACK /\ IFA_F_TENTATIVE \in ifp.flags
              THEN Invoke(Put(Hold(S, "ifp"), "ifp"), Call("addrconf_dad_failure", skb.target, 0, FALSE))
              ELSE Put(Hold(S, "ifp"), "ifp"))
        ELSE IF ~n.present THEN S
        ELSE IF n.nud_state = NUD_FAILED THEN Put(S1, "neigh")
        ELSE IF own_proxy THEN Put(S1, "neigh")
        ELSE Put(S3, "neigh")

\* Mutant: the node's own advertisement coming back fails DAD as well.
ndisc_recv_na_LoopbackFails(S, skb, env) ==
    LET dev == net.dev
        r   == ndisc_parse_options(skb.opt, Len(skb.opt), net.config)
        lladdr == OptAddrData(skb, r, ND_OPT_TARGET_LL_ADDR)
        ifp == ipv6_get_ifaddr(skb.target)
        n   == neigh_lookup(S, skb.target)
        own_proxy == /\ lladdr # NULL
                     /\ LLBytes(skb.opt, lladdr) = dev.dev_addr
                     /\ net.devconf_all.forwarding
                     /\ net.devconf_all.proxy_ndp
                     /\ pneigh_lookup(skb.target).present
        S1 == Hold(S, "neigh")
        S2 == UpdateNeigh(S1, skb.target, LLBytes(skb.opt, lladdr),
                          IF skb.solicited THEN NUD_REACHABLE ELSE NUD_STALE,
                          {NEIGH_UPDATE_F_WEAK_OVERRIDE, NEIGH_UPDATE_F_OVERRIDE_ISROUTER}
                            \cup (IF skb.override THEN {NEIGH_UPDATE_F_OVERRIDE} ELSE {})
                            \cup (IF skb.router THEN {NEIGH_UPDATE_F_ISROUTER} ELSE {}))
        \* (old_flags & ~neigh->flags) & NTF_ROUTER: router to host
        S3 == IF n.router /\ ~S2.nd_tbl[skb.target].router /\ rt6_get_dflt_router(S2, skb.saddr).present
              THEN ip6_del_rt(Hold(S2, "rt"), skb.saddr)
              ELSE S2
    IN  IF skb.short THEN S
        ELSE IF ipv6_addr_is_multicast(skb.target) THEN S
        ELSE IF ipv6_addr_is_multicast(skb.daddr) /\ skb.solicited THEN S
        ELSE IF ~r.ok THEN S
        ELSE IF r.opts.arr[ND_OPT_TARGET_LL_ADDR] # NULL /\ lladdr = NULL THEN S
        ELSE IF ifp.present
        THEN (IF IFA_F_TENTATIVE \in ifp.flags
              THEN Invoke(Put(Hold(S, "ifp"), "ifp"), Call("addrconf_dad_failure", skb.target, 0, FALSE))
              ELSE Put(Hold(S, "ifp"), "ifp"))
        ELSE IF ~n.present THEN S
        ELSE IF n.nud_state = NUD_FAILED THEN Put(S1, "neigh")
        ELSE IF own_proxy THEN Put(S1, "neigh")
        ELSE Put(S3, "neigh")

\* Mutant: the node's own proxy advertisement updates the entry like any other.
ndisc_recv_na_NoProxyCheck(S, skb, env) ==
    LET dev == net.dev
        r   == ndisc_parse_options(skb.opt, Len(skb.opt), net.config)
        lladdr == OptAddrData(skb, r, ND_OPT_TARGET_LL_ADDR)
        ifp == ipv6_get_ifaddr(skb.target)
        n   == neigh_lookup(S, skb.target)
        own_proxy == /\ lladdr # NULL
                     /\ LLBytes(skb.opt, lladdr) = dev.dev_addr
                     /\ net.devconf_all.forwarding
                     /\ net.devconf_all.proxy_ndp
                     /\ pneigh_lookup(skb.target).present
        S1 == Hold(S, "neigh")
        S2 == UpdateNeigh(S1, skb.target, LLBytes(skb.opt, lladdr),
                          IF skb.solicited THEN NUD_REACHABLE ELSE NUD_STALE,
                          {NEIGH_UPDATE_F_WEAK_OVERRIDE, NEIGH_UPDATE_F_OVERRIDE_ISROUTER}
                            \cup (IF skb.override THEN {NEIGH_UPDATE_F_OVERRIDE} ELSE {})
                            \cup (IF skb.router THEN {NEIGH_UPDATE_F_ISROUTER} ELSE {}))
        \* (old_flags & ~neigh->flags) & NTF_ROUTER: router to host
        S3 == IF n.router /\ ~S2.nd_tbl[skb.target].router /\ rt6_get_dflt_router(S2, skb.saddr).present
              THEN ip6_del_rt(Hold(S2, "rt"), skb.saddr)
              ELSE S2
    IN  IF skb.short THEN S
        ELSE IF ipv6_addr_is_multicast(skb.target) THEN S
        ELSE IF ipv6_addr_is_multicast(skb.daddr) /\ skb.solicited THEN S
        ELSE IF ~r.ok THEN S
        ELSE IF r.opts.arr[ND_OPT_TARGET_LL_ADDR] # NULL /\ lladdr = NULL THEN S
        ELSE IF ifp.present
        THEN (IF skb.pkt_type # PACKET_LOOPBACK /\ IFA_F_TENTATIVE \in ifp.flags
              THEN Invoke(Put(Hold(S, "ifp"), "ifp"), Call("addrconf_dad_failure", skb.target, 0, FALSE))
              ELSE Put(Hold(S, "ifp"), "ifp"))
        ELSE IF ~n.present THEN S
        ELSE IF n.nud_state = NUD_FAILED THEN Put(S1, "neigh")
                ELSE Put(S3, "neigh")

\* Mutant: an advertised target that is not in the cache is entered.
ndisc_recv_na_Creates(S, skb, env) ==
    LET dev == net.dev
        r   == ndisc_parse_options(skb.opt, Len(skb.opt), net.config)
        lladdr == OptAddrData(skb, r, ND_OPT_TARGET_LL_ADDR)
        ifp == ipv6_get_ifaddr(skb.target)
        n   == neigh_lookup(S, skb.target)
        own_proxy == /\ lladdr # NULL
                     /\ LLBytes(skb.opt, lladdr) = dev.dev_addr
                     /\ net.devconf_all.forwarding
                     /\ net.devconf_all.proxy_ndp
                     /\ pneigh_lookup(skb.target).present
        S1 == Hold(S, "neigh")
        S2 == UpdateNeigh(S1, skb.target, LLBytes(skb.opt, lladdr),
                          IF skb.solicited THEN NUD_REACHABLE ELSE NUD_STALE,
                          {NEIGH_UPDATE_F_WEAK_OVERRIDE, NEIGH_UPDATE_F_OVERRIDE_ISROUTER}
                            \cup (IF skb.override THEN {NEIGH_UPDATE_F_OVERRIDE} ELSE {})
                            \cup (IF skb.router THEN {NEIGH_UPDATE_F_ISROUTER} ELSE {}))
        \* (old_flags & ~neigh->flags) & NTF_ROUTER: router to host
        S3 == IF n.router /\ ~S2.nd_tbl[skb.target].router /\ rt6_get_dflt_router(S2, skb.saddr).present
              THEN ip6_del_rt(Hold(S2, "rt"), skb.saddr)
              ELSE S2
    IN  IF skb.short THEN S
        ELSE IF ipv6_addr_is_multicast(skb.target) THEN S
        ELSE IF ipv6_addr_is_multicast(skb.daddr) /\ skb.solicited THEN S
        ELSE IF ~r.ok THEN S
        ELSE IF r.opts.arr[ND_OPT_TARGET_LL_ADDR] # NULL /\ lladdr = NULL THEN S
        ELSE IF ifp.present
        THEN (IF skb.pkt_type # PACKET_LOOPBACK /\ IFA_F_TENTATIVE \in ifp.flags
              THEN Invoke(Put(Hold(S, "ifp"), "ifp"), Call("addrconf_dad_failure", skb.target, 0, FALSE))
              ELSE Put(Hold(S, "ifp"), "ifp"))
        ELSE IF ~n.present THEN Put(neigh_lookup_create(S, skb.target, TRUE, env), "neigh")
        ELSE IF n.nud_state = NUD_FAILED THEN Put(S1, "neigh")
        ELSE IF own_proxy THEN Put(S1, "neigh")
        ELSE Put(S3, "neigh")

ndisc_recv_na(S, skb, env) ==
    LET dev == net.dev
        r   == ndisc_parse_options(skb.opt, Len(skb.opt), net.config)
        lladdr == OptAddrData(skb, r, ND_OPT_TARGET_LL_ADDR)
        ifp == ipv6_get_ifaddr(skb.target)
        n   == neigh_lookup(S, skb.target)
        own_proxy == /\ lladdr # NULL
                     /\ LLBytes(skb.opt, lladdr) = dev.dev_addr
                     /\ net.devconf_all.forwarding
                     /\ net.devconf_all.proxy_ndp
                     /\ pneigh_lookup(skb.target).present
        S1 == Hold(S, "neigh")
        S2 == UpdateNeigh(S1, skb.target, LLBytes(skb.opt, lladdr),
                          IF skb.solicited THEN NUD_REACHABLE ELSE NUD_STALE,
                          {NEIGH_UPDATE_F_WEAK_OVERRIDE, NEIGH_UPDATE_F_OVERRIDE_ISROUTER}
                            \cup (IF skb.override THEN {NEIGH_UPDATE_F_OVERRIDE} ELSE {})
                            \cup (IF skb.router THEN {NEIGH_UPDATE_F_ISROUTER} ELSE {}))
        \* (old_flags & ~neigh->flags) & NTF_ROUTER: router to host
        S3 == IF n.router /\ ~S2.nd_tbl[skb.target].router /\ rt6_get_dflt_router(S2, skb.saddr).present
              THEN ip6_del_rt(Hold(S2, "rt"), skb.saddr)
              ELSE S2
    IN  IF skb.short THEN S
        ELSE IF ipv6_addr_is_multicast(skb.target) THEN S
        ELSE IF ipv6_addr_is_multicast(skb.daddr) /\ skb.solicited THEN S
        ELSE IF ~r.ok THEN S
        ELSE IF r.opts.arr[ND_OPT_TARGET_LL_ADDR] # NULL /\ lladdr = NULL THEN S
        ELSE IF ifp.present
        THEN (IF skb.pkt_type # PACKET_LOOPBACK /\ IFA_F_TENTATIVE \in ifp.flags
              THEN Invoke(Put(Hold(S, "ifp"), "ifp"), Call("addrconf_dad_failure", skb.target, 0, FALSE))
              ELSE Put(Hold(S, "ifp"), "ifp"))
        ELSE IF ~n.present THEN S
        ELSE IF n.nud_state = NUD_FAILED THEN Put(S1, "neigh")
        ELSE IF own_proxy THEN Put(S1, "neigh")
        ELSE Put(S3, "neigh")

(***************************************************************************)
(* ndisc_recv_rs                                                           *)
(***************************************************************************)
\* Mutant: the length of the source link-layer address option is not looked at.
ndisc_recv_rs_AnyLength(S, skb, env) ==
    LET r   == ndisc_parse_options(skb.opt, Len(skb.opt), net.config)
        lladdr == OptAddrData(skb, r, ND_OPT_SOURCE_LL_ADDR)
        found == neigh_found(S, skb.saddr, TRUE, env)
        S1 == neigh_lookup_create(S, skb.saddr, TRUE, env)
        S2 == UpdateNeigh(S1, skb.saddr, LLBytes(skb.opt, lladdr), NUD_STALE,
                          {NEIGH_UPDATE_F_WEAK_OVERRIDE, NEIGH_UPDATE_F_OVERRIDE,
                           NEIGH_UPDATE_F_OVERRIDE_ISROUTER})
    IN  IF skb.short THEN S
        ELSE IF ~net.has_idev THEN S
        ELSE IF ~S.idev.cnf.forwarding THEN S
        ELSE IF ipv6_addr_any(skb.saddr) THEN S
        ELSE IF ~r.ok THEN S
        ELSE IF found THEN Put(S2, "neigh")
        ELSE S1

\* Mutant: a host takes solicitations for routers as well.
ndisc_recv_rs_HostAccepts(S, skb, env) ==
    LET r   == ndisc_parse_options(skb.opt, Len(skb.opt), net.config)
        lladdr == OptAddrData(skb, r, ND_OPT_SOURCE_LL_ADDR)
        found == neigh_found(S, skb.saddr, TRUE, env)
        S1 == neigh_lookup_create(S, skb.saddr, TRUE, env)
        S2 == UpdateNeigh(S1, skb.saddr, LLBytes(skb.opt, lladdr), NUD_STALE,
                          {NEIGH_UPDATE_F_WEAK_OVERRIDE, NEIGH_UPDATE_F_OVERRIDE,
                           NEIGH_UPDATE_F_OVERRIDE_ISROUTER})
    IN  IF skb.short THEN S
        ELSE IF ~net.has_idev THEN S
        ELSE IF ipv6_addr_any(skb.saddr) THEN S
        ELSE IF ~r.ok THEN S
        ELSE IF r.opts.arr[ND_OPT_SOURCE_LL_ADDR] # NULL /\ lladdr = NULL THEN S
        ELSE IF found THEN Put(S2, "neigh")
        ELSE S1

ndisc_recv_rs(S, skb, env) ==
    LET r   == ndisc_parse_options(skb.opt, Len(skb.opt), net.config)
        lladdr == OptAddrData(skb, r, ND_OPT_SOURCE_LL_ADDR)
        found == neigh_found(S, skb.saddr, TRUE, env)
        S1 == neigh_lookup_create(S, skb.saddr, TRUE, env)
        S2 == UpdateNeigh(S1, skb.saddr, LLBytes(skb.opt, lladdr), NUD_STALE,
                          {NEIGH_UPDATE_F_WEAK_OVERRIDE, NEIGH_UPDATE_F_OVERRIDE,
                           NEIGH_UPDATE_F_OVERRIDE_ISROUTER})
    IN  IF skb.short THEN S
        ELSE IF ~net.has_idev THEN S
        ELSE IF ~S.idev.cnf.forwarding THEN S
        ELSE IF ipv6_addr_any(skb.saddr) THEN S
        ELSE IF ~r.ok THEN S
        ELSE IF r.opts.arr[ND_OPT_SOURCE_LL_ADDR] # NULL /\ lladdr = NULL THEN S
        ELSE IF found THEN Put(S2, "neigh")
        ELSE S1

(***************************************************************************)
(* ndisc_router_discovery                                                  *)
(***************************************************************************)
ICMPV6_ROUTER_PREF_MEDIUM == 0
ICMPV6_ROUTER_PREF_INVALID == 2
\* MAX_SCHEDULE_TIMEOUT == LONG_MAX of the 32-bit build
MAX_SCHEDULE_TIMEOUT == 2147483647

\* A 32-bit quantity is held as two 16-bit halves, [hi, lo]: hi * 65536 + lo.
U32(n) == [hi |-> n \div 65536, lo |-> n % 65536]
u32_is_zero(x) == x.hi = 0 /\ x.lo = 0
\* x / 1000
u32_div1000(x) == x.hi * 65 + (x.hi * 536 + x.lo) \div 1000
\* x * k in unsigned long: the product modulo 2^32
mul_ulong(x, k) ==
    [hi |-> (x.hi * k + (x.lo * k) \div 65536) % 65536, lo |-> (x.lo * k) % 65536]

\* ipv6_accept_ra(idev): with forwarding on, only accept_ra == 2 accepts
ipv6_accept_ra(d) == IF d.cnf.forwarding THEN d.cnf.accept_ra = 2 ELSE d.cnf.accept_ra # 0

Min(a, b) == IF a < b THEN a ELSE b
\* strncmp(a, b, n) == 0 on names held as sequences of characters
strncmp_eq(a, b, n) ==
    /\ Min(Len(a), n) = Min(Len(b), n)
    /\ SubSeq(a, 1, Min(Len(a), n)) = SubSeq(b, 1, Min(Len(b), n))
ccmni == <<"c", "c", "m", "n", "i">>

\* the do-while of ndisc_next_option and ndisc_next_useropt
RECURSIVE Advance(_, _, _, _)
Advance(opt, cur, end, types) ==
    LET nxt == cur + ByteAt(opt, cur + 1) * 8
    IN  IF nxt < end /\ ByteAt(opt, nxt) \notin types
        THEN Advance(opt, nxt, end, types)
        ELSE nxt

\* Mutant: only an option right behind the current one is looked at.
ndisc_next_option_Adjacent(opt, cur, end) ==
    IF cur = NULL \/ end = NULL \/ cur >= end THEN NULL
    ELSE LET nxt == cur + ByteAt(opt, cur + 1) * 8
         IN  IF nxt <= end /\ ByteAt(opt, nxt) = ByteAt(opt, cur) THEN nxt ELSE NULL

ndisc_next_option(opt, cur, end) ==
    IF cur = NULL \/ end = NULL \/ cur >= end THEN NULL
    ELSE LET nxt == Advance(opt, cur, end, {ByteAt(opt, cur)})
         IN  IF nxt <= end /\ ByteAt(opt, nxt) = ByteAt(opt, cur) THEN nxt ELSE NULL

ndisc_next_useropt(opt, cur, end) ==
    IF cur = NULL \/ end = NULL \/ cur >= end THEN NULL
    ELSE LET nxt == Advance(opt, cur, end, {ND_OPT_RDNSS, ND_OPT_DNSSL})
         IN  IF nxt <= end /\ ndisc_is_useropt(ByteAt(opt, nxt)) THEN nxt ELSE NULL

\* the options a for loop over ndisc_next_option, or ndisc_next_useropt, visits
RECURSIVE OptionLoop(_, _, _, _)
OptionLoop(opt, p, end, user) ==
    IF p = NULL THEN <<>>
    ELSE <<p>> \o OptionLoop(opt, IF user THEN ndisc_next_useropt(opt, p, end)
                                  ELSE ndisc_next_option(opt, p, end), end, user)

\* ntohl of the four bytes at offset off
ntohl_at(opt, off) ==
    ((ByteAt(opt, off) * 256 + ByteAt(opt, off + 1)) * 256 + ByteAt(opt, off + 2)) * 256 + ByteAt(opt, off + 3)

\* Mutant: the exit path releases the neighbour entry but keeps the route.
ra_out_KeepRoute(S, rt, neigh) ==
    IF neigh THEN Put(S, "neigh") ELSE S

\* out: ip6_rt_put(rt); if (neigh) neigh_release(neigh);
ra_out(S, rt, neigh) ==
    LET S1 == IF rt THEN Put(S, "rt") ELSE S
    IN  IF neigh THEN Put(S1, "neigh") ELSE S1

\* Mutant: an MTU below the IPv6 minimum is taken over.
ra_options_NoFloor(S, skb, r, rt, neigh, env) ==
    LET opt == skb.opt
        d   == S.idev
        ris == OptionLoop(opt, r.opts.ri, r.opts.ri_end, FALSE)
        ri_ok(p) == /\ ~(skb.nodetype = NDISC_NODETYPE_NODEFAULT /\ ByteAt(opt, p + 2) = 0)
                    /\ ByteAt(opt, p + 2) <= d.cnf.accept_ra_rt_info_max_plen
        ri_calls == IF net.config.route_info /\ ~ipv6_chk_addr(skb.saddr)
                       /\ d.cnf.accept_ra_rtr_pref /\ r.opts.ri # NULL
                    THEN [i \in 1..Len(SelectSeq(ris, ri_ok)) |->
                            Call("rt6_route_rcv", skb.saddr, SelectSeq(ris, ri_ok)[i], FALSE)]
                    ELSE <<>>
        S1  == [S EXCEPT !.calls = @ \o ri_calls]
        pis == OptionLoop(opt, r.opts.arr[ND_OPT_PREFIX_INFO], r.opts.arr[ND_OPT_PREFIX_INFO_END], FALSE)
        pi_calls == IF d.cnf.accept_ra_pinfo /\ r.opts.arr[ND_OPT_PREFIX_INFO] # NULL
                    THEN [i \in 1..Len(pis) |->
                            Call("addrconf_prefix_rcv", skb.saddr, pis[i], r.opts.arr[ND_OPT_SOURCE_LL_ADDR] # NULL)]
                    ELSE <<>>
        S2  == [S1 EXCEPT !.calls = @ \o pi_calls]
        \* u32 mtu: with the top bit set it is above the MTU of every interface
        top == ByteAt(opt, r.opts.arr[ND_OPT_MTU] + 4)
        mtu == ntohl_at(opt, r.opts.arr[ND_OPT_MTU] + 4)
        S3  == IF r.opts.arr[ND_OPT_MTU] = NULL THEN S2
               ELSE IF top >= 128 \/ mtu > net.dev.mtu THEN S2
               ELSE IF d.cnf.mtu6 = mtu THEN S2
               ELSE Invoke([S2 EXCEPT !.idev.cnf.mtu6 = mtu,
                                      !.rt6 = IF rt THEN [@ EXCEPT ![skb.saddr].mtu = mtu] ELSE @],
                           Call("rt6_mtu_change", skb.saddr, mtu, FALSE))
        us  == OptionLoop(opt, r.opts.useropts, r.opts.useropts_end, TRUE)
        S4  == [S3 EXCEPT !.calls = @ \o [i \in 1..Len(us) |-> Call("ndisc_ra_useropt", skb.saddr, us[i], FALSE)]]
    IN  IF ~ipv6_accept_ra(d) THEN ra_out(S, rt, neigh)
        ELSE IF skb.nodetype = NDISC_NODETYPE_NODEFAULT THEN ra_out(S1, rt, neigh)
        ELSE ra_out(S4, rt, neigh)

\* from the second "if (!ipv6_accept_ra(in6_dev)) goto out" to out
ra_options(S, skb, r, rt, neigh, env) ==
    LET opt == skb.opt
        d   == S.idev
        ris == OptionLoop(opt, r.opts.ri, r.opts.ri_end, FALSE)
        ri_ok(p) == /\ ~(skb.nodetype = NDISC_NODETYPE_NODEFAULT /\ ByteAt(opt, p + 2) = 0)
                    /\ ByteAt(opt, p + 2) <= d.cnf.accept_ra_rt_info_max_plen
        ri_calls == IF net.config.route_info /\ ~ipv6_chk_addr(skb.saddr)
                       /\ d.cnf.accept_ra_rtr_pref /\ r.opts.ri # NULL
                    THEN [i \in 1..Len(SelectSeq(ris, ri_ok)) |->
                            Call("rt6_route_rcv", skb.saddr, SelectSeq(ris, ri_ok)[i], FALSE)]
                    ELSE <<>>
        S1  == [S EXCEPT !.calls = @ \o ri_calls]
        pis == OptionLoop(opt, r.opts.arr[ND_OPT_PREFIX_INFO], r.opts.arr[ND_OPT_PREFIX_INFO_END], FALSE)
        pi_calls == IF d.cnf.accept_ra_pinfo /\ r.opts.arr[ND_OPT_PREFIX_INFO] # NULL
                    THEN [i \in 1..Len(pis) |->
                            Call("addrconf_prefix_rcv", skb.saddr, pis[i], r.opts.arr[ND_OPT_SOURCE_LL_ADDR] # NULL)]
                    ELSE <<>>
        S2  == [S1 EXCEPT !.calls = @ \o pi_calls]
        \* u32 mtu: with the top bit set it is above the MTU of every interface
        top == ByteAt(opt, r.opts.arr[ND_OPT_MTU] + 4)
        mtu == ntohl_at(opt, r.opts.arr[ND_OPT_MTU] + 4)
        S3  == IF r.opts.arr[ND_OPT_MTU] = NULL THEN S2
               ELSE IF top >= 128 \/ mtu < IPV6_MIN_MTU \/ mtu > net.dev.mtu THEN S2
               ELSE IF d.cnf.mtu6 = mtu THEN S2
               ELSE Invoke([S2 EXCEPT !.idev.cnf.mtu6 = mtu,
                                      !.rt6 = IF rt THEN [@ EXCEPT ![skb.saddr].mtu = mtu] ELSE @],
                           Call("rt6_mtu_change", skb.saddr, mtu, FALSE))
        us  == OptionLoop(opt, r.opts.useropts, r.opts.useropts_end, TRUE)
        S4  == [S3 EXCEPT !.calls = @ \o [i \in 1..Len(us) |-> Call("ndisc_ra_useropt", skb.saddr, us[i], FALSE)]]
    IN  IF ~ipv6_accept_ra(d) THEN ra_out(S, rt, neigh)
        ELSE IF skb.nodetype = NDISC_NODETYPE_NODEFAULT THEN ra_out(S1, rt, neigh)
        ELSE ra_out(S4, rt, neigh)

\* Mutant: the address of the RA does not override the one in the cache.
ra_skip_linkparms_WeakOnly(S, skb, r, rt, neigh, env) ==
    LET found  == neigh \/ neigh_found(S, skb.saddr, TRUE, env)
        S1     == IF neigh THEN S ELSE neigh_lookup_create(S, skb.saddr, TRUE, env)
        lladdr == OptAddrData(skb, r, ND_OPT_SOURCE_LL_ADDR)
        S2     == UpdateNeigh(S1, skb.saddr, LLBytes(skb.opt, lladdr), NUD_STALE,
                              {NEIGH_UPDATE_F_WEAK_OVERRIDE,
                               NEIGH_UPDATE_F_OVERRIDE_ISROUTER, NEIGH_UPDATE_F_ISROUTER})
    IN  IF ~found THEN ra_options(S1, skb, r, rt, FALSE, env)
        ELSE IF r.opts.arr[ND_OPT_SOURCE_LL_ADDR] # NULL /\ lladdr = NULL THEN ra_out(S1, rt, TRUE)
        ELSE ra_options(S2, skb, r, rt, TRUE, env)

\* skip_linkparms: the sender's neighbour entry, then the options
ra_skip_linkparms(S, skb, r, rt, neigh, env) ==
    LET found  == neigh \/ neigh_found(S, skb.saddr, TRUE, env)
        S1     == IF neigh THEN S ELSE neigh_lookup_create(S, skb.saddr, TRUE, env)
        lladdr == OptAddrData(skb, r, ND_OPT_SOURCE_LL_ADDR)
        S2     == UpdateNeigh(S1, skb.saddr, LLBytes(skb.opt, lladdr), NUD_STALE,
                              {NEIGH_UPDATE_F_WEAK_OVERRIDE, NEIGH_UPDATE_F_OVERRIDE,
                               NEIGH_UPDATE_F_OVERRIDE_ISROUTER, NEIGH_UPDATE_F_ISROUTER})
    IN  IF ~found THEN ra_options(S1, skb, r, rt, FALSE, env)
        ELSE IF r.opts.arr[ND_OPT_SOURCE_LL_ADDR] # NULL /\ lladdr = NULL THEN ra_out(S1, rt, TRUE)
        ELSE ra_options(S2, skb, r, rt, TRUE, env)

\* Mutant: the advertised time is converted to ticks and stored as it comes out.
ra_ticks_NoClamp(ms) == u32_div1000(mul_ulong(ms, HZ))

\* one timer of the RA in ticks: (ms * HZ) / 1000 in unsigned long, at least HZ / 10
ra_ticks(ms) ==
    LET t == u32_div1000(mul_ulong(ms, HZ))
    IN  IF t < HZ \div 10 THEN HZ \div 10 ELSE t

\* neigh_rand_reach_time(base): a value of [base / 2, 3 * base / 2) the generator picks
neigh_rand_reach_time(base, rnd) ==
    IF base = 0 THEN 0 ELSE (base \div 2) + (rnd % base)

\* skip_defrtr: the retransmission timer and the reachable time
ra_timers(S, skb, env) ==
    LET rt_ms == skb.retrans_timer
        S1 == IF ~u32_is_zero(rt_ms) /\ u32_div1000(rt_ms) < MAX_SCHEDULE_TIMEOUT \div HZ
              THEN Invoke([S EXCEPT !.idev.nd_parms.retrans_time = ra_ticks(rt_ms),
                                    !.idev.tstamp = jiffies],
                          Call("inet6_ifinfo_notify", skb.saddr, 0, FALSE))
              ELSE S
        re_ms == skb.reachable_time
        rtime == ra_ticks(re_ms)
    IN  IF ~u32_is_zero(re_ms) /\ u32_div1000(re_ms) < MAX_SCHEDULE_TIMEOUT \div (3 * HZ)
           /\ rtime # S1.idev.nd_parms.base_reachable_time
        THEN Invoke([S1 EXCEPT !.idev.nd_parms.base_reachable_time = rtime,
                               !.idev.nd_parms.gc_staletime = 3 * rtime,
                               !.idev.nd_parms.reachable_time = neigh_rand_reach_time(rtime, env.rnd),
                               !.idev.tstamp = jiffies],
                    Call("inet6_ifinfo_notify", skb.saddr, 0, FALSE))
        ELSE S1

\* Mutant: the field is taken over even when it is zero.
ra_hop_limit_Unconditional(S, skb, r, rt, neigh, env) ==
    LET S1 == IF TRUE
              THEN [S EXCEPT !.idev.cnf.hop_limit = skb.ra_hop_limit,
                             !.rt6 = IF rt THEN [@ EXCEPT ![skb.saddr].hoplimit = skb.ra_hop_limit] ELSE @]
              ELSE S
    IN  ra_skip_linkparms(ra_timers(S1, skb, env), skb, r, rt, neigh, env)

\* "if (ra_msg->icmph.icmp6_hop_limit)", then skip_defrtr
ra_hop_limit(S, skb, r, rt, neigh, env) ==
    LET S1 == IF skb.ra_hop_limit # 0
              THEN [S EXCEPT !.idev.cnf.hop_limit = skb.ra_hop_limit,
                             !.rt6 = IF rt THEN [@ EXCEPT ![skb.saddr].hoplimit = skb.ra_hop_limit] ELSE @]
              ELSE S
    IN  ra_skip_linkparms(ra_timers(S1, skb, env), skb, r, rt, neigh, env)

\* Mutant: a router lifetime of zero leaves the default router in the list.
ra_defrtr_KeepOnZero(S, skb, r, env) ==
    LET saddr    == skb.saddr
        lifetime == skb.rt_lifetime
        pref     == IF ~net.config.router_pref THEN ICMPV6_ROUTER_PREF_MEDIUM
                    ELSE IF skb.router_pref = ICMPV6_ROUTER_PREF_INVALID \/ ~S.idev.cnf.accept_ra_rtr_pref
                    THEN ICMPV6_ROUTER_PREF_MEDIUM ELSE skb.router_pref
        expires  == jiffies + HZ * lifetime
        had      == rt6_get_dflt_router(S, saddr).present
        found    == neigh_found(S, saddr, TRUE, env)
        Sn       == neigh_lookup_create(Hold(S, "rt"), saddr, TRUE, env)
        Sadd     == neigh_lookup_create(
                        Hold([S EXCEPT !.rt6[saddr] = [NoRoute EXCEPT !.present = TRUE, !.pref = pref]], "rt"),
                        saddr, TRUE, env)
    IN  IF had
        THEN (IF ~found THEN Put(Sn, "rt")
              ELSE ra_hop_limit([Sn EXCEPT !.rt6[saddr].pref = pref, !.rt6[saddr].expires = expires],
                                skb, r, TRUE, TRUE, env))
        ELSE IF lifetime # 0
        THEN (IF ~env.rt_ok THEN S
              ELSE IF ~found THEN Put(Sadd, "rt")
              ELSE ra_hop_limit([Sadd EXCEPT !.nd_tbl[saddr].router = TRUE, !.rt6[saddr].expires = expires],
                                skb, r, TRUE, TRUE, env))
        ELSE ra_hop_limit(S, skb, r, FALSE, FALSE, env)

\* from rt6_get_dflt_router to rt6_set_expires: the default router of the RA's source
ra_defrtr(S, skb, r, env) ==
    LET saddr    == skb.saddr
        lifetime == skb.rt_lifetime
        pref     == IF ~net.config.router_pref THEN ICMPV6_ROUTER_PREF_MEDIUM
                    ELSE IF skb.router_pref = ICMPV6_ROUTER_PREF_INVALID \/ ~S.idev.cnf.accept_ra_rtr_pref
                    THEN ICMPV6_ROUTER_PREF_MEDIUM ELSE skb.router_pref
        expires  == jiffies + HZ * lifetime
        had      == rt6_get_dflt_router(S, saddr).present
        found    == neigh_found(S, saddr, TRUE, env)
        Sn       == neigh_lookup_create(Hold(S, "rt"), saddr, TRUE, env)
        Sadd     == neigh_lookup_create(
                        Hold([S EXCEPT !.rt6[saddr] = [NoRoute EXCEPT !.present = TRUE, !.pref = pref]], "rt"),
                        saddr, TRUE, env)
    IN  IF had
        THEN (IF ~found THEN Put(Sn, "rt")
              ELSE IF lifetime = 0 THEN ra_hop_limit(ip6_del_rt(Sn, saddr), skb, r, FALSE, TRUE, env)
              ELSE ra_hop_limit([Sn EXCEPT !.rt6[saddr].pref = pref, !.rt6[saddr].expires = expires],
                                skb, r, TRUE, TRUE, env))
        ELSE IF lifetime # 0
        THEN (IF ~env.rt_ok THEN S
              ELSE IF ~found THEN Put(Sadd, "rt")
              ELSE ra_hop_limit([Sadd EXCEPT !.nd_tbl[saddr].router = TRUE, !.rt6[saddr].expires = expires],
                                skb, r, TRUE, TRUE, env))
        ELSE ra_hop_limit(S, skb, r, FALSE, FALSE, env)

\* from "if (in6_dev->if_flags & IF_RS_SENT)" on: an accepted RA
ra_linkparms(S, skb, r, env) ==
    LET f1 == IF IF_RS_SENT \in S.idev.if_flags THEN S.idev.if_flags \cup {IF_RA_RCVD} ELSE S.idev.if_flags
        f2 == (f1 \ {IF_RA_MANAGED, IF_RA_OTHERCONF})
                \cup (IF skb.managed THEN {IF_RA_MANAGED} ELSE {})
                \cup (IF skb.other THEN {IF_RA_OTHERCONF} ELSE {})
        S1 == [S EXCEPT !.idev.if_flags = f2]
        S2 == IF strncmp_eq(net.dev.name, ccmni, 2)
              THEN [S1 EXCEPT !.idev.cnf.accept_ra_defrtr = FALSE]
              ELSE S1
    IN  IF ~S2.idev.cnf.accept_ra_defrtr THEN ra_skip_linkparms(ra_timers(S2, skb, env), skb, r, FALSE, FALSE, env)
        ELSE IF ipv6_chk_addr(skb.saddr) THEN ra_skip_linkparms(ra_timers(S2, skb, env), skb, r, FALSE, FALSE, env)
        ELSE ra_defrtr(S2, skb, r, env)

\* Mutant: the link parameters and the default router are taken from every RA.
ndisc_router_discovery_AlwaysAccept(S, skb, env) ==
    LET r == ndisc_parse_options(skb.opt, IF skb.short THEN -1 ELSE Len(skb.opt), net.config)
    IN  IF ~IsLinkLocal(skb.saddr) THEN S
        ELSE IF skb.short THEN S
        ELSE IF skb.nodetype = NDISC_NODETYPE_HOST THEN S
        ELSE IF ~net.has_idev THEN S
        ELSE IF ~r.ok THEN S
        ELSE IF skb.nodetype = NDISC_NODETYPE_NODEFAULT THEN ra_skip_linkparms(S, skb, r, FALSE, FALSE, env)
        ELSE ra_linkparms(S, skb, r, env)

ndisc_router_discovery(S, skb, env) ==
    LET r == ndisc_parse_options(skb.opt, IF skb.short THEN -1 ELSE Len(skb.opt), net.config)
    IN  IF ~IsLinkLocal(skb.saddr) THEN S
        ELSE IF skb.short THEN S
        ELSE IF skb.nodetype = NDISC_NODETYPE_HOST THEN S
        ELSE IF ~net.has_idev THEN S
        ELSE IF ~r.ok THEN S
        ELSE IF ~ipv6_accept_ra(S.idev) THEN ra_skip_linkparms(S, skb, r, FALSE, FALSE, env)
        ELSE IF skb.nodetype = NDISC_NODETYPE_NODEFAULT THEN ra_skip_linkparms(S, skb, r, FALSE, FALSE, env)
        ELSE ra_linkparms(S, skb, r, env)

(***************************************************************************)
(* ndisc_redirect_rcv                                                      *)
(***************************************************************************)
ndisc_redirect_rcv(S, skb, env) ==
    LET r == ndisc_parse_options(skb.opt, IF skb.short THEN -1 ELSE Len(skb.opt), net.config)
    IN  IF skb.nodetype \in {NDISC_NODETYPE_HOST, NDISC_NODETYPE_NODEFAULT} THEN S
        ELSE IF ~IsLinkLocal(skb.saddr) THEN S
        ELSE IF ~r.ok THEN S
        ELSE IF r.opts.arr[ND_OPT_REDIRECT_HDR] = NULL THEN S
        ELSE IF ~env.pull_ok THEN S
        ELSE Invoke(S, Call("icmpv6_notify", skb.dest, r.opts.arr[ND_OPT_REDIRECT_HDR] + 8, FALSE))

(***************************************************************************)
(* ndisc_send_redirect                                                     *)
(***************************************************************************)
\* the redirected-header option: eight bytes of header, rd_len - 8 of the packet
ndisc_fill_redirect_hdr_option(orig, rd_len) ==
    <<ND_OPT_REDIRECT_HDR, (rd_len \div 8) % 256, 0, 0, 0, 0, 0, 0>> \o SubSeq(orig, 1, rd_len - 8)

\* Mutant: the room the target link-layer address option takes is not taken off.
redirect_rd_len_NoOption(optlen, len) ==
    (Min(IPV6_MIN_MTU - sizeof_ipv6hdr - sizeof_rd_msg, len + 8) \div 8) * 8

\* rd_len: min_t(unsigned int, IPV6_MIN_MTU - sizeof(ipv6hdr) - sizeof(*msg) - optlen, skb->len + 8) & ~7
redirect_rd_len(optlen, len) ==
    (Min(IPV6_MIN_MTU - sizeof_ipv6hdr - sizeof_rd_msg - optlen, len + 8) \div 8) * 8

\* skb is the packet being forwarded: [saddr, daddr, data]
ndisc_send_redirect(S, skb, target, env) ==
    LET dev   == net.dev
        lls   == ipv6_get_lladdr({IFA_F_TENTATIVE})
        saddr_buf == CHOOSE a \in lls : \A b \in lls : a.n <= b.n
        S1    == Hold(S, "dst")
        S2    == IF env.peer THEN Put(Hold(S1, "peer"), "peer") ELSE S1
        found == neigh_found(S2, target, TRUE, env)
        S3    == neigh_lookup_create(S2, target, TRUE, env)
        n     == S3.nd_tbl[target]
        ha    == IF dev.addr_len # 0 /\ n.nud_state \in NUD_VALID THEN n.ha ELSE NoLL
        has_ha == dev.addr_len # 0 /\ n.nud_state \in NUD_VALID
        S4    == IF dev.addr_len # 0 THEN Put(S3, "neigh") ELSE S2
        optlen == IF has_ha THEN ndisc_opt_addr_space(dev) ELSE 0
        rd_len == redirect_rd_len(optlen, Len(skb.data))
        opt1  == IF has_ha
                 THEN ndisc_fill_addr_option(skb_put(dev, env), 0, dev, ND_OPT_TARGET_LL_ADDR, ha)
                 ELSE <<>>
        opt2  == IF rd_len # 0 THEN ndisc_fill_redirect_hdr_option(skb.data, rd_len) ELSE <<>>
        buff  == [NoSkb EXCEPT !.type = NDISC_REDIRECT, !.target = target, !.dest = skb.daddr,
                               !.opt = opt1 \o opt2, !.has_dst = TRUE]
    IN  IF lls = {} THEN S
        ELSE IF skb.daddr # target /\ target.k # "ll" THEN S
        ELSE IF env.dst_error THEN Put(S1, "dst")
        ELSE IF ~env.xfrm_ok THEN Put(S1, "dst")
        ELSE IF env.rt_gateway THEN Put(S1, "dst")
        ELSE IF ~env.xrlim_allow THEN Put(S2, "dst")
        ELSE IF dev.addr_len # 0 /\ ~found THEN Put(S3, "dst")
        ELSE IF ~env.alloc_ok THEN Put(S4, "dst")
        ELSE Put(ndisc_send_skb(S4, buff, skb.saddr, saddr_buf, env), "dst")

(***************************************************************************)
(* ndisc_solicit: the reachability driver of an entry whose probe count is *)
(* probes; skb is the packet waiting for the entry, if any.                *)
(***************************************************************************)
\* Mutant: the probes go to the solicited-node address from the first one on.
ndisc_solicit_NoUnicast(S, target, skb, probes, env) ==
    LET saddr == IF skb.present /\ ipv6_chk_addr(skb.saddr) THEN skb.saddr ELSE NoAddr
    IN  ndisc_send_ns(S, target, addrconf_addr_solict_mult(target), saddr, env)

ndisc_solicit(S, target, skb, probes, env) ==
    LET saddr == IF skb.present /\ ipv6_chk_addr(skb.saddr) THEN skb.saddr ELSE NoAddr
        parms == S.idev.nd_parms
    IN  IF probes - parms.ucast_probes < 0
        THEN ndisc_send_ns(S, target, target, saddr, env)
        ELSE IF probes - parms.ucast_probes - parms.app_probes < 0
        THEN (IF net.config.arpd THEN Invoke(S, Call("neigh_app_ns", target, 0, FALSE)) ELSE S)
        ELSE ndisc_send_ns(S, target, addrconf_addr_solict_mult(target), saddr, env)

(***************************************************************************)
(* ndisc_rcv.  The forwarding of RS and RA between tethered interfaces     *)
(* (ndp_forward) is compiled only under MTK_IPV6_TETHER_NDP_MODE, which    *)
(* this file does not define; it comes after the two header checks and     *)
(* touches none of the tables.                                             *)
(***************************************************************************)
\* Mutant: the hop limit of an inbound packet is not looked at.
ndisc_rcv_AnyHops(S, skb, env) ==
    LET in == [skb EXCEPT !.cb_flags = {}]
    IN  IF ~env.linearize_ok THEN S
        ELSE IF skb.code # 0 THEN S
        ELSE IF skb.type = NDISC_NEIGHBOUR_SOLICITATION THEN ndisc_recv_ns(S, in, env)
        ELSE IF skb.type = NDISC_NEIGHBOUR_ADVERTISEMENT THEN ndisc_recv_na(S, in, env)
        ELSE IF skb.type = NDISC_ROUTER_SOLICITATION THEN ndisc_recv_rs(S, in, env)
        ELSE IF skb.type = NDISC_ROUTER_ADVERTISEMENT THEN ndisc_router_discovery(S, in, env)
        ELSE IF skb.type = NDISC_REDIRECT THEN ndisc_redirect_rcv(S, in, env)
        ELSE S

ndisc_rcv(S, skb, env) ==
    LET in == [skb EXCEPT !.cb_flags = {}]
    IN  IF ~env.linearize_ok THEN S
        ELSE IF skb.hop_limit # 255 THEN S
        ELSE IF skb.code # 0 THEN S
        ELSE IF skb.type = NDISC_NEIGHBOUR_SOLICITATION THEN ndisc_recv_ns(S, in, env)
        ELSE IF skb.type = NDISC_NEIGHBOUR_ADVERTISEMENT THEN ndisc_recv_na(S, in, env)
        ELSE IF skb.type = NDISC_ROUTER_SOLICITATION THEN ndisc_recv_rs(S, in, env)
        ELSE IF skb.type = NDISC_ROUTER_ADVERTISEMENT THEN ndisc_router_discovery(S, in, env)
        ELSE IF skb.type = NDISC_REDIRECT THEN ndisc_redirect_rcv(S, in, env)
        ELSE S

(***************************************************************************)
(* The interfaces, the node's configuration and the packets of the model.  *)
(***************************************************************************)
Mac(b) == [i \in 1..6 |-> b]
OwnMac == Mac(2)
MacA == Mac(170)
MacB == Mac(187)

eth0 == [name |-> <<"e", "t", "h", "0">>, type |-> ARPHRD_ETHER, addr_len |-> 6,
         dev_addr |-> OwnMac, broadcast |-> Mac(255), header_ops |-> TRUE, flags |-> {}, mtu |-> 1500]
\* a cellular interface: no link-layer header, no link-layer address
ccmni0 == [name |-> <<"c", "c", "m", "n", "i", "0">>, type |-> "ARPHRD_NONE", addr_len |-> 0,
           dev_addr |-> <<>>, broadcast |-> <<>>, header_ops |-> FALSE,
           flags |-> {"IFF_NOARP", "IFF_POINTOPOINT"}, mtu |-> 1500]
\* an Ethernet interface whose name shares two letters with the cellular ones
cc0 == [eth0 EXCEPT !.name = <<"c", "c", "0">>]

OwnLL == LinkLocal(10)
OwnGlobal == Global(10)
ProxiedAddr == Global(42)
AnycastAddr == Global(20)
OtherAddr == Global(5)
RouterLL == LinkLocal(1)
NodeLL == LinkLocal(2)
SolNode(a) == addrconf_addr_solict_mult(a)

\* the keys of the neighbour cache and of the default-router list
NeighKeys == {RouterLL, NodeLL, OtherAddr, OwnLL, OwnGlobal, ProxiedAddr, AnycastAddr}

Ready == [present |-> TRUE, flags |-> {}]
Tentative == [present |-> TRUE, flags |-> {IFA_F_TENTATIVE}]
Optimistic == [present |-> TRUE, flags |-> {IFA_F_TENTATIVE, IFA_F_OPTIMISTIC}]

BuildOptions == [route_info |-> TRUE, router_pref |-> TRUE, optimistic_dad |-> TRUE, arpd |-> FALSE]

HostNet == [dev |-> eth0, has_idev |-> TRUE,
            addrs |-> (OwnLL :> Ready) @@ (OwnGlobal :> Ready),
            acast |-> {}, pneigh |-> (ProxiedAddr :> [present |-> FALSE, router |-> FALSE]),
            devconf_all |-> [forwarding |-> FALSE, proxy_ndp |-> FALSE],
            saddr |-> OwnLL, config |-> BuildOptions]
RouterNet == [HostNet EXCEPT !.acast = {AnycastAddr},
                             !.pneigh = (ProxiedAddr :> [present |-> TRUE, router |-> TRUE]),
                             !.devconf_all = [forwarding |-> TRUE, proxy_ndp |-> TRUE]]

HostCnf == [forwarding |-> FALSE, accept_ra |-> 1, accept_ra_defrtr |-> TRUE, accept_ra_pinfo |-> TRUE,
            accept_ra_rtr_pref |-> TRUE, accept_ra_rt_info_max_plen |-> 64, proxy_ndp |-> FALSE,
            force_tllao |-> FALSE, ndisc_notify |-> FALSE, hop_limit |-> 64, mtu6 |-> 1500]
HostParms == [retrans_time |-> HZ, base_reachable_time |-> 30 * HZ, reachable_time |-> 30 * HZ,
              gc_staletime |-> 60 * HZ, proxy_delay |-> 80, proxy_qlen |-> MaxProxyQlen,
              ucast_probes |-> 3, app_probes |-> 0, mcast_probes |-> 3]
HostIdev == [if_flags |-> {IF_RS_SENT}, cnf |-> HostCnf, nd_parms |-> HostParms, tstamp |-> 0]
RouterIdev == [HostIdev EXCEPT !.cnf.forwarding = TRUE, !.cnf.proxy_ndp = TRUE, !.if_flags = {}]

\* the configurations a run starts from: <<net, idev>>
Profiles ==
    {<<HostNet, HostIdev>>,
     <<[HostNet EXCEPT !.addrs[OwnGlobal] = Tentative], HostIdev>>,
     <<[HostNet EXCEPT !.addrs[OwnGlobal] = Optimistic], HostIdev>>,
     <<HostNet, [HostIdev EXCEPT !.cnf.accept_ra = 0]>>,
     <<HostNet, [HostIdev EXCEPT !.cnf.accept_ra_defrtr = FALSE, !.cnf.force_tllao = TRUE]>>,
     <<[HostNet EXCEPT !.dev = cc0], HostIdev>>,
     <<[HostNet EXCEPT !.dev = ccmni0], HostIdev>>,
     <<[HostNet EXCEPT !.has_idev = FALSE, !.addrs = (OwnLL :> NoIfaddr) @@ (OwnGlobal :> NoIfaddr)], HostIdev>>,
     <<RouterNet, RouterIdev>>,
     <<RouterNet, [RouterIdev EXCEPT !.cnf.accept_ra = 2, !.nd_parms.proxy_delay = 0]>>}

\* the outcome of the calls that can fail, all succeeding
EnvOk == [linearize_ok |-> TRUE, alloc_ok |-> TRUE, dst_ok |-> TRUE, nf_ok |-> TRUE, saddr_ok |-> TRUE,
          neigh_ok |-> TRUE, clone_ok |-> TRUE, rt_ok |-> TRUE, pull_ok |-> TRUE,
          dst_error |-> FALSE, xfrm_ok |-> TRUE, rt_gateway |-> FALSE, peer |-> TRUE, xrlim_allow |-> TRUE,
          rnd |-> 0, garbage |-> 255]
\* one call failing
Fault(f) == [EnvOk EXCEPT ![f] = FALSE]
\* the calls that can fail on the way of a message of this type
FaultsOf(type) ==
    {Fault(f) : f \in {"linearize_ok"} \cup
        (IF type = NDISC_NEIGHBOUR_SOLICITATION
         THEN {"alloc_ok", "dst_ok", "nf_ok", "saddr_ok", "neigh_ok", "clone_ok"}
         ELSE IF type = NDISC_ROUTER_SOLICITATION THEN {"neigh_ok"}
         ELSE IF type = NDISC_ROUTER_ADVERTISEMENT THEN {"neigh_ok", "rt_ok"}
         ELSE IF type = NDISC_REDIRECT THEN {"pull_ok"}
         ELSE {})}
RedirectFaults ==
    {[EnvOk EXCEPT !.dst_error = TRUE], [EnvOk EXCEPT !.rt_gateway = TRUE]}
        \cup {Fault(f) : f \in {"xfrm_ok", "peer", "xrlim_allow", "neigh_ok", "alloc_ok", "nf_ok"}}

\* an option of len units: its two header bytes, body, and zeros up to the end
Option(type, len, body) == <<type, len>> \o body \o [i \in 1..(len * 8 - 2 - Len(body)) |-> 0]
OptSLLA(mac) == Option(ND_OPT_SOURCE_LL_ADDR, 1, mac)
OptTLLA(mac) == Option(ND_OPT_TARGET_LL_ADDR, 1, mac)
OptSLLALong == Option(ND_OPT_SOURCE_LL_ADDR, 2, MacA)
OptTLLALong == Option(ND_OPT_TARGET_LL_ADDR, 2, MacA)
OptZeroLen == <<ND_OPT_SOURCE_LL_ADDR, 0, 0, 0, 0, 0, 0, 0>>
OptMTU(b2, b3) == Option(ND_OPT_MTU, 1, <<0, 0, 0, 0, b2, b3>>)
OptPI == Option(ND_OPT_PREFIX_INFO, 4, <<64, 192>>)
OptRI(plen) == Option(ND_OPT_ROUTE_INFO, 2, <<plen>>)
OptRDNSS == Option(ND_OPT_RDNSS, 3, <<>>)
OptRH == Option(ND_OPT_REDIRECT_HDR, 2, <<>>)

\* an inbound packet as ip6_input hands it to ndisc_rcv
Pkt == [type |-> NDISC_NEIGHBOUR_SOLICITATION, hop_limit |-> 255, code |-> 0,
        saddr |-> RouterLL, daddr |-> OwnLL, pkt_type |-> PACKET_HOST, cb_flags |-> {},
        short |-> FALSE, target |-> OwnGlobal, dest |-> in6addr_any,
        router |-> FALSE, solicited |-> FALSE, override |-> FALSE, opt |-> <<>>,
        rt_lifetime |-> 0, ra_hop_limit |-> 0, managed |-> FALSE, other |-> FALSE,
        router_pref |-> 0, reachable_time |-> U32(0), retrans_timer |-> U32(0),
        nodetype |-> NDISC_NODETYPE_UNSPEC]
\* the packet type the link layer gives a packet sent to daddr
PktTypeOf(daddr) == IF ipv6_addr_is_multicast(daddr) THEN PACKET_MULTICAST ELSE PACKET_HOST

(***************************************************************************)
(* The packets that arrive.                                                *)
(***************************************************************************)
NSBase(s, d, t, o) == [Pkt EXCEPT !.saddr = s, !.daddr = d, !.pkt_type = PktTypeOf(d), !.target = t, !.opt = o]
NSPackets ==
    UNION {{NSBase(s, d, t, o) : s \in {in6addr_any, RouterLL},
                                 d \in {SolNode(t), in6addr_linklocal_allnodes, OwnLL},
                                 o \in {<<>>, OptSLLA(MacA), OptSLLALong, OptZeroLen}}
           : t \in {OwnGlobal, ProxiedAddr}}
    \cup {NSBase(s, SolNode(AnycastAddr), AnycastAddr, <<>>) : s \in {in6addr_any, RouterLL}}
    \cup {NSBase(RouterLL, SolNode(OtherAddr), OtherAddr, OptSLLA(MacA)),
          NSBase(RouterLL, OwnLL, in6addr_linklocal_allnodes, <<>>),
          [NSBase(RouterLL, OwnLL, OwnGlobal, <<>>) EXCEPT !.short = TRUE],
          [NSBase(RouterLL, SolNode(ProxiedAddr), ProxiedAddr, OptSLLA(MacA)) EXCEPT !.pkt_type = PACKET_HOST]}

NABase(d, t, r, s, o, opt) ==
    [Pkt EXCEPT !.type = NDISC_NEIGHBOUR_ADVERTISEMENT, !.saddr = RouterLL, !.daddr = d,
                !.pkt_type = PktTypeOf(d), !.target = t, !.router = r, !.solicited = s,
                !.override = o, !.opt = opt]
NAPackets ==
    {NABase(d, t, f[1], f[2], f[3], opt) :
        d \in {OwnLL, in6addr_linklocal_allnodes}, t \in {RouterLL, OwnGlobal},
        f \in {<<TRUE, TRUE, TRUE>>, <<FALSE, FALSE, TRUE>>, <<FALSE, TRUE, FALSE>>},
        opt \in {<<>>, OptTLLA(MacA)}}
    \cup {NABase(OwnLL, RouterLL, TRUE, FALSE, FALSE, OptTLLA(MacB)),
          NABase(OwnLL, RouterLL, TRUE, TRUE, TRUE, OptTLLALong),
          NABase(OwnLL, ProxiedAddr, FALSE, TRUE, TRUE, OptTLLA(OwnMac)),
          NABase(OwnLL, in6addr_linklocal_allnodes, FALSE, FALSE, TRUE, <<>>),
          [NABase(in6addr_linklocal_allnodes, OwnGlobal, FALSE, FALSE, TRUE, OptTLLA(OwnMac))
             EXCEPT !.pkt_type = PACKET_LOOPBACK],
          [NABase(OwnLL, RouterLL, TRUE, TRUE, TRUE, <<>>) EXCEPT !.short = TRUE]}

RSBase(s, o) ==
    [Pkt EXCEPT !.type = NDISC_ROUTER_SOLICITATION, !.saddr = s, !.daddr = in6addr_linklocal_allrouters,
                !.pkt_type = PACKET_MULTICAST, !.opt = o]
RSPackets ==
    {RSBase(s, o) : s \in {in6addr_any, NodeLL}, o \in {<<>>, OptSLLA(MacA), OptSLLALong}}
    \cup {[RSBase(NodeLL, <<>>) EXCEPT !.short = TRUE], RSBase(NodeLL, OptZeroLen)}

RABase(s, lt, o) ==
    [Pkt EXCEPT !.type = NDISC_ROUTER_ADVERTISEMENT, !.saddr = s, !.daddr = in6addr_linklocal_allnodes,
                !.pkt_type = PACKET_MULTICAST, !.rt_lifetime = lt, !.opt = o]
RAFull == OptSLLA(MacA) \o OptMTU(5, 120) \o OptPI \o OptRI(0) \o OptRDNSS \o OptPI \o OptRI(96)
RAPackets ==
    {RABase(s, lt, o) : s \in {RouterLL, OtherAddr, OwnLL}, lt \in {0, 1800},
                        o \in {<<>>, OptSLLA(MacA), OptSLLALong}}
    \cup {[RABase(RouterLL, lt, RAFull) EXCEPT !.ra_hop_limit = 32, !.managed = TRUE, !.router_pref = 1,
                                               !.reachable_time = U32(20000), !.retrans_timer = U32(5)]
            : lt \in {0, 1800}}
    \cup {[RABase(RouterLL, 1800, RAFull) EXCEPT !.nodetype = nt, !.router_pref = ICMPV6_ROUTER_PREF_INVALID]
            : nt \in {NDISC_NODETYPE_HOST, NDISC_NODETYPE_NODEFAULT}}
    \cup {[RABase(RouterLL, 1800, <<>>) EXCEPT !.short = TRUE],
          RABase(RouterLL, 1800, OptZeroLen),
          [RABase(RouterLL, 2, OptTLLA(MacB) \o OptMTU(0, 1)) EXCEPT !.other = TRUE]}

\* RAs that advertise timers: below a tenth of a second, an odd number of
\* ticks, the largest value of the field, and values that are in force already
RATimers(re, rt) ==
    [RABase(RouterLL, 1800, OptSLLA(MacA)) EXCEPT !.reachable_time = re, !.retrans_timer = rt]
RATimerPackets ==
    {RATimers(U32(1), U32(99)), RATimers(U32(150), U32(0)), RATimers(U32(0), U32(1000)),
     RATimers([hi |-> 65535, lo |-> 65535], [hi |-> 65535, lo |-> 65535]),
     RATimers(U32(30000), U32(1000)),
     \* just above 2^32 / HZ milliseconds
     RATimers(U32(42949673), U32(42949673))}
\* what net_random() returns to neigh_rand_reach_time
RndValues == {0, 14, 19, 2147483647}

RDBase(s, o) ==
    [Pkt EXCEPT !.type = NDISC_REDIRECT, !.saddr = s, !.daddr = OwnLL, !.target = NodeLL,
                !.dest = OtherAddr, !.opt = o]
RDPackets ==
    {RDBase(s, o) : s \in {RouterLL, OtherAddr}, o \in {<<>>, OptRH, OptTLLA(MacA) \o OptRH}}
    \cup {[RDBase(RouterLL, OptRH) EXCEPT !.nodetype = NDISC_NODETYPE_HOST],
          [RDBase(RouterLL, OptRH) EXCEPT !.short = TRUE],
          RDBase(RouterLL, OptZeroLen)}

\* packets the handlers act on when the IPv6 and ICMPv6 headers are as required
Probes ==
    {NSBase(RouterLL, SolNode(OwnGlobal), OwnGlobal, OptSLLA(MacA)),
     NSBase(in6addr_any, SolNode(OwnGlobal), OwnGlobal, <<>>),
     NSBase(RouterLL, SolNode(ProxiedAddr), ProxiedAddr, OptSLLA(MacA)),
     NABase(in6addr_linklocal_allnodes, OwnGlobal, FALSE, FALSE, TRUE, <<>>),
     NABase(OwnLL, RouterLL, TRUE, TRUE, TRUE, OptTLLA(MacA)),
     RSBase(NodeLL, OptSLLA(MacA)),
     RABase(RouterLL, 1800, OptSLLA(MacA)),
     RABase(RouterLL, 0, <<>>),
     RDBase(RouterLL, OptRH)}
\* the same with a hop limit below 255, or a code other than 0
BadHeaders ==
    {[p EXCEPT !.hop_limit = h[1], !.code = h[2]] : p \in Probes, h \in {<<64, 0>>, <<255, 1>>, <<254, 3>>}}

RcvPackets == NSPackets \cup NAPackets \cup RSPackets \cup RAPackets \cup RDPackets \cup BadHeaders
\* the outcomes of the fallible calls that a packet is tried with
EnvsOf(skb) == IF skb \in Probes THEN {EnvOk} \cup FaultsOf(skb.type) ELSE {EnvOk}

\* packets being forwarded for which ip6_forward asks for a Redirect
Forwarded == {[saddr |-> s, daddr |-> OtherAddr, data |-> [i \in 1..n |-> BodyByte]] :
                 s \in {NodeLL, Global(6)}, n \in {40, 43}}
\* the outcomes of the fallible calls that a Redirect is tried with
RedirectEnvs(skb, target) ==
    IF skb.saddr = NodeLL /\ Len(skb.data) = 43 /\ target = OtherAddr
    THEN {EnvOk} \cup RedirectFaults ELSE {EnvOk}
\* the outcomes an RA is tried with: the generator matters where a timer is set
RAEnvs == {[EnvOk EXCEPT !.rnd = v] : v \in RndValues}
RedirectTargets == {OtherAddr, RouterLL, Global(7)}
NoSkbQueued == [present |-> FALSE, saddr |-> in6addr_any]

NoLast == [op |-> "none"]
\* no handler is under way
NoTasks == [ra |-> [pc |-> "idle"], sysctl |-> [pc |-> "idle"]]

\* the pipeline as it is while only the codec is exercised
PipeIdle ==
    /\ ndisc_sk = ndisc_net_init
    /\ net = HostNet /\ idev = HostIdev
    /\ nd_tbl = [a \in NeighKeys |-> NoNeigh]
    /\ rt6 = [a \in NeighKeys |-> NoRoute]
    /\ proxy_queue = <<>> /\ jiffies = 0
    /\ sent = <<>> /\ calls = <<>> /\ refs = NoRefs /\ last = NoLast /\ tasks = NoTasks

(***************************************************************************)
(* The codec's inputs: option areas whose header bytes (type, length) are  *)
(* drawn from small sets, and devices with short addresses.                *)
(***************************************************************************)
UnknownTypes == {0, 26}

TypeVals ==
    {ND_OPT_SOURCE_LL_ADDR, ND_OPT_TARGET_LL_ADDR, ND_OPT_PREFIX_INFO,
     ND_OPT_REDIRECT_HDR, ND_OPT_MTU, ND_OPT_ROUTE_INFO, ND_OPT_RDNSS,
     ND_OPT_DNSSL} \cup UnknownTypes

LenVals == 0..MaxLenUnits

\* Whole units, and areas that end 1 or 2 bytes into a unit.
OptLens == {n \in 0..MaxOptLen : n % 8 \in {0, 1, 2}}

\* The area of n bytes whose whole units carry the headers hdr; of the bytes
\* after the last whole unit the second, where an option's length would be,
\* is tl.
AreaOf(n, hdr, tl) ==
    [i \in 1..n |-> IF (i - 1) \div 8 >= n \div 8
                    THEN (IF (i - 1) % 8 = 1 THEN tl ELSE BodyByte)
                    ELSE IF (i - 1) % 8 = 0 THEN hdr[(i - 1) \div 8][1]
                    ELSE IF (i - 1) % 8 = 1 THEN hdr[(i - 1) \div 8][2]
                    ELSE BodyByte]

NoDev == [type |-> ARPHRD_ETHER, addr_len |-> 0]
NoFill == [pending |-> FALSE, type |-> 0, data |-> <<>>]
NoResult == [done |-> FALSE, ok |-> FALSE, opts |-> NoOptions]

CodecInit ==
    /\ \E n \in OptLens \cup {-1} :
         \E hdr \in [0..(n \div 8) - 1 -> TypeVals \X LenVals],
            tl \in IF n % 8 >= 2 THEN LenVals ELSE {BodyByte} :
            /\ obuf = AreaOf(n, hdr, tl)
            /\ olen = n
    /\ ocfg \in [route_info : BOOLEAN]
    /\ ores = NoResult
    /\ odev = NoDev
    /\ oin = NoFill
    /\ PipeIdle

\* A receive handler hands its option area to the parser.
ParseOptions ==
    /\ ~oin.pending
    /\ ~ores.done
    /\ ores' = [done |-> TRUE,
                ok   |-> ndisc_parse_options(obuf, olen, ocfg).ok,
                opts |-> ndisc_parse_options(obuf, olen, ocfg).opts]
    /\ UNCHANGED <<obuf, olen, ocfg, odev, oin>>
    /\ UNCHANGED pvars

CodecNext == ParseOptions

SpecCodec == CodecInit /\ [][CodecNext]_vars

(***************************************************************************)
(* The address option written by a sender and parsed by a receiver:       *)
(* skb_put hands out ndisc_opt_addr_space(dev) bytes of a fresh skb, whose *)
(* content is whatever the allocator left there.                           *)
(***************************************************************************)
AddrBytes == {2, 187}
GarbageBytes == {1, 255}
DevTypes == {ARPHRD_ETHER, ARPHRD_INFINIBAND}

FillInit ==
    /\ \E ty \in DevTypes, al \in 0..MaxAddrLen, g \in GarbageBytes :
         /\ odev = [type |-> ty, addr_len |-> al]
         /\ obuf = [i \in 1..ndisc_opt_addr_space([type |-> ty, addr_len |-> al]) |-> g]
         /\ olen = ndisc_opt_addr_space([type |-> ty, addr_len |-> al])
         /\ \E t \in {ND_OPT_SOURCE_LL_ADDR, ND_OPT_TARGET_LL_ADDR},
               d \in [1..al -> AddrBytes] :
              oin = [pending |-> TRUE, type |-> t, data |-> d]
    /\ ocfg \in [route_info : BOOLEAN]
    /\ ores = NoResult
    /\ PipeIdle

FillAddrOption ==
    /\ oin.pending
    /\ obuf' = ndisc_fill_addr_option(obuf, 0, odev, oin.type, oin.data)
    /\ oin' = [oin EXCEPT !.pending = FALSE]
    /\ UNCHANGED <<olen, ores, ocfg, odev>>
    /\ UNCHANGED pvars

FillNext == FillAddrOption \/ ParseOptions

SpecFill == FillInit /\ [][FillNext]_vars


(***************************************************************************)
(* The node: packets arrive, the proxy timer fires, and the collaborators  *)
(* ask for solicitations, advertisements and redirects.  Every step takes  *)
(* one tick of the clock; a run is MaxSteps steps long.                    *)
(***************************************************************************)
CodecIdle ==
    /\ obuf = <<>> /\ olen = 0 /\ ores = NoResult /\ ocfg = [route_info |-> TRUE]
    /\ odev = NoDev /\ oin = NoFill

\* after ndisc_net_init and the registration of an interface
PipeInit ==
    /\ ndisc_sk = ndisc_net_init
    /\ \E p \in Profiles : net = p[1] /\ idev = p[2]
    /\ nd_tbl = [a \in NeighKeys |-> NoNeigh]
    /\ rt6 = [a \in NeighKeys |-> NoRoute]
    /\ proxy_queue = <<>>
    /\ jiffies = 0
    /\ sent = <<>> /\ calls = <<>> /\ refs = NoRefs /\ last = NoLast /\ tasks = NoTasks
    /\ CodecIdle

\* the handler has run to its end: its effects become the state
StepWithin(S, l, steps) ==
    /\ jiffies < steps
    /\ nd_tbl' = S.nd_tbl /\ rt6' = S.rt6 /\ idev' = S.idev /\ proxy_queue' = S.proxy_queue
    /\ sent' = S.sent /\ calls' = S.calls /\ refs' = S.refs
    /\ last' = l
    /\ jiffies' = jiffies + 1
    /\ UNCHANGED <<ndisc_sk, net, tasks, obuf, olen, ores, ocfg, odev, oin>>
Step(S, l) == StepWithin(S, l, MaxSteps)

\* icmpv6_rcv hands an NDP packet to ndisc_rcv
NdiscRcv(packets) ==
    \E skb \in packets : \E env \in EnvsOf(skb) :
        Step(ndisc_rcv(Begin, skb, env), [op |-> "ndisc_rcv", skb |-> skb, env |-> env])

\* neigh_proxy_process: the delay of the first queued packet is over
ProxyTimer ==
    /\ proxy_queue # <<>>
    /\ \E env \in {EnvOk} :
        Step(pndisc_redo([Begin EXCEPT !.proxy_queue = Tail(@)], Head(proxy_queue), env),
             [op |-> "pndisc_redo", skb |-> Head(proxy_queue), env |-> env])

\* ip6_forward found a better first hop for a packet it forwards
SendRedirect ==
    \E skb \in Forwarded, target \in RedirectTargets : \E env \in RedirectEnvs(skb, target) :
        Step(ndisc_send_redirect(Begin, skb, target, env),
             [op |-> "ndisc_send_redirect", skb |-> skb, target |-> target, env |-> env])

\* the timer of a neighbour entry asks for the next probe
Solicit ==
    \E target \in {RouterLL}, probes \in 0..MaxProbes, env \in {EnvOk},
       skb \in {NoSkbQueued, [present |-> TRUE, saddr |-> OwnGlobal], [present |-> TRUE, saddr |-> OtherAddr]} :
        Step(ndisc_solicit(Begin, target, skb, probes, env),
             [op |-> "ndisc_solicit", target |-> target, probes |-> probes, skb |-> skb, env |-> env])

\* address configuration sends a Router Solicitation, or a DAD probe
SendRS ==
    \E saddr \in {OwnLL, OwnGlobal, in6addr_any}, env \in {EnvOk, [EnvOk EXCEPT !.dst_ok = FALSE]} :
        Step(ndisc_send_rs(Begin, saddr, in6addr_linklocal_allrouters, env),
             [op |-> "ndisc_send_rs", saddr |-> saddr, env |-> env])

SendDadNS ==
    \E target \in {OwnGlobal}, env \in {EnvOk, [EnvOk EXCEPT !.alloc_ok = FALSE]} :
        Step(ndisc_send_ns(Begin, target, SolNode(target), in6addr_any, env),
             [op |-> "ndisc_send_ns", target |-> target, env |-> env])

PipeNext ==
    \/ NdiscRcv(RcvPackets)
    \/ ProxyTimer
    \/ SendRedirect
    \/ Solicit
    \/ SendRS
    \/ SendDadNS

Spec == PipeInit /\ [][PipeNext]_vars

(***************************************************************************)
(* A host that only hears Router Advertisements, MaxRaSteps of them.       *)
(***************************************************************************)
RouterAdvert ==
    \E skb \in RAPackets : \E env \in EnvsOf(skb) :
        StepWithin(ndisc_rcv(Begin, skb, env), [op |-> "ndisc_rcv", skb |-> skb, env |-> env], MaxRaSteps)

SpecRA == PipeInit /\ [][RouterAdvert]_vars

(***************************************************************************)
(* A host that hears Router Advertisements which advertise timers.         *)
(***************************************************************************)
RouterAdvertTimers ==
    \E skb \in RATimerPackets : \E env \in RAEnvs :
        Step(ndisc_rcv(Begin, skb, env), [op |-> "ndisc_rcv", skb |-> skb, env |-> env])

SpecRATimers == PipeInit /\ [][RouterAdvertTimers]_vars

(***************************************************************************)
(* A node whose neighbour cache is in use already when a packet arrives.   *)
(* The generic cache moves an entry between its states on its own timers;  *)
(* what the handlers find is one of the entries below.                     *)
(***************************************************************************)
NeighEntry(state, ha, router) == [present |-> TRUE, nud_state |-> state, ha |-> ha, router |-> router]
Installed == [NoRoute EXCEPT !.present = TRUE, !.expires = 1800 * HZ]

\* what the cache and the default-router list hold for RouterLL: <<entry, route>>
NeighSeeds(n) ==
    IF ~n.has_idev THEN {<<NoNeigh, NoRoute>>}
    ELSE IF n.dev.addr_len = 0
    THEN {<<NoNeigh, NoRoute>>, <<NeighEntry(NUD_NOARP, n.dev.broadcast, FALSE), NoRoute>>}
    ELSE {<<NoNeigh, NoRoute>>,
          <<NeighEntry(NUD_INCOMPLETE, ZeroLL(n.dev), FALSE), NoRoute>>,
          <<NeighEntry(NUD_REACHABLE, MacB, TRUE), Installed>>,
          <<NeighEntry(NUD_STALE, MacA, FALSE), NoRoute>>,
          <<NeighEntry(NUD_FAILED, ZeroLL(n.dev), FALSE), NoRoute>>,
          <<NeighEntry(NUD_PERMANENT, MacB, FALSE), NoRoute>>}

\* with them, what they hold for a proxied node that said it is a router, and
\* for a second router on the link:
\* <<entry of RouterLL, route of RouterLL, entry of ProxiedAddr, entry of NodeLL, route of NodeLL>>
NeighTables(n) ==
    {<<s[1], s[2], NoNeigh, NoNeigh, NoRoute>> : s \in NeighSeeds(n)}
    \cup (IF n.has_idev /\ n.dev.addr_len # 0
          THEN {<<NeighEntry(NUD_REACHABLE, MacB, TRUE), Installed, NeighEntry(NUD_STALE, MacA, TRUE), NoNeigh, NoRoute>>,
                <<NeighEntry(NUD_REACHABLE, MacB, TRUE), Installed, NoNeigh, NeighEntry(NUD_STALE, MacA, TRUE), Installed>>,
                <<NoNeigh, NoRoute, NoNeigh, NeighEntry(NUD_STALE, MacA, TRUE), Installed>>,
                <<NeighEntry(NUD_REACHABLE, MacB, TRUE), Installed, NoNeigh, NeighEntry(NUD_FAILED, ZeroLL(n.dev), TRUE), Installed>>}
          ELSE {})

NeighInit ==
    /\ ndisc_sk = ndisc_net_init
    /\ \E p \in Profiles : \E s \in NeighTables(p[1]) :
          /\ net = p[1] /\ idev = p[2]
          /\ nd_tbl = [a \in NeighKeys |-> IF a = RouterLL THEN s[1] ELSE IF a = ProxiedAddr THEN s[3]
                                           ELSE IF a = NodeLL THEN s[4] ELSE NoNeigh]
          /\ rt6 = [a \in NeighKeys |-> IF a = RouterLL THEN s[2] ELSE IF a = NodeLL THEN s[5] ELSE NoRoute]
    /\ proxy_queue = <<>>
    /\ jiffies = 0
    /\ sent = <<>> /\ calls = <<>> /\ refs = NoRefs /\ last = NoLast /\ tasks = NoTasks
    /\ CodecIdle

\* advertisements RouterLL sends about the second router
SecondRouterNAs ==
    {NABase(OwnLL, NodeLL, FALSE, TRUE, TRUE, OptTLLA(MacA)),
     NABase(OwnLL, NodeLL, TRUE, FALSE, TRUE, OptTLLA(MacB)),
     NABase(in6addr_linklocal_allnodes, NodeLL, FALSE, FALSE, FALSE, <<>>)}

\* Router Advertisements with a source link-layer address option two units
\* long and other options behind it
LongOptionRAs ==
    {RABase(RouterLL, lt, OptSLLALong \o OptPI \o OptMTU(5, 120) \o OptRDNSS) : lt \in {0, 1800}}

NeighPackets == NSPackets \cup NAPackets \cup RSPackets \cup RAPackets \cup SecondRouterNAs \cup LongOptionRAs

\* the outcomes of the fallible calls a packet is tried with
NeighEnvs(skb) == EnvsOf(skb) \cup (IF skb \in LongOptionRAs THEN {Fault("neigh_ok")} ELSE {})

\* icmpv6_rcv hands a solicitation or an advertisement to ndisc_rcv
NeighRcv ==
    \E skb \in NeighPackets : \E env \in NeighEnvs(skb) :
        StepWithin(ndisc_rcv(Begin, skb, env), [op |-> "ndisc_rcv", skb |-> skb, env |-> env], MaxNeighSteps)

SpecNeigh == NeighInit /\ [][NeighRcv]_vars

(***************************************************************************)
(* A node that hears solicitations for addresses it answers for others,    *)
(* and whose proxy timer hands the delayed ones back.                      *)
(***************************************************************************)
\* a router whose proxy entry is not flagged a router
ProxyOnlyNet == [RouterNet EXCEPT !.pneigh = (ProxiedAddr :> [present |-> TRUE, router |-> FALSE])]
ProxyProfiles ==
    {<<RouterNet, RouterIdev>>,
     <<ProxyOnlyNet, RouterIdev>>,
     <<RouterNet, [RouterIdev EXCEPT !.nd_parms.proxy_delay = 0]>>,
     <<[RouterNet EXCEPT !.dev = ccmni0], RouterIdev>>,
     <<HostNet, HostIdev>>,
     <<[HostNet EXCEPT !.addrs[OwnGlobal] = Optimistic], HostIdev>>,
     <<HostNet, [HostIdev EXCEPT !.cnf.force_tllao = TRUE]>>}

ProxyInit ==
    /\ ndisc_sk = ndisc_net_init
    /\ \E p \in ProxyProfiles : net = p[1] /\ idev = p[2]
    /\ nd_tbl = [a \in NeighKeys |-> NoNeigh]
    /\ rt6 = [a \in NeighKeys |-> NoRoute]
    /\ proxy_queue = <<>>
    /\ jiffies = 0
    /\ sent = <<>> /\ calls = <<>> /\ refs = NoRefs /\ last = NoLast /\ tasks = NoTasks
    /\ CodecIdle

\* a solicitation arrives
ProxyRcv ==
    \E skb \in NSPackets : \E env \in EnvsOf(skb) :
        Step(ndisc_rcv(Begin, skb, env), [op |-> "ndisc_rcv", skb |-> skb, env |-> env])

\* neigh_proxy_process: the delay of the first queued packet is over
ProxyRedo ==
    /\ proxy_queue # <<>>
    /\ \E env \in {EnvOk, Fault("alloc_ok"), Fault("dst_ok"), Fault("saddr_ok"), Fault("neigh_ok")} :
        Step(pndisc_redo([Begin EXCEPT !.proxy_queue = Tail(@)], Head(proxy_queue), env),
             [op |-> "pndisc_redo", skb |-> Head(proxy_queue), env |-> env])

SpecProxy == ProxyInit /\ [][ProxyRcv \/ ProxyRedo]_vars

(***************************************************************************)
(* A host that hears Router Advertisements with MTU, prefix and DNS        *)
(* options in many arrangements.                                           *)
(***************************************************************************)
\* the MTU option with all four bytes of the value
OptMTU32(b0, b1, b2, b3) == Option(ND_OPT_MTU, 1, <<0, 0, b0, b1, b2, b3>>)
OptDNSSL == Option(ND_OPT_DNSSL, 2, <<>>)
\* an option of a type the node does not know
OptUnknown == Option(200, 1, <<>>)

\* 1279, 1280, 1400, 1500, 1501, 66936, 2^31 - 1 and 2^31 + 1400
MtuOptions ==
    {OptMTU(4, 255), OptMTU(5, 0), OptMTU(5, 120), OptMTU(5, 220), OptMTU(5, 221),
     OptMTU32(0, 1, 5, 120), OptMTU32(127, 255, 255, 255), OptMTU32(128, 0, 5, 120)}

\* prefixes and DNS options one behind the other and with others in between
OptionTrains ==
    {OptPI,
     OptPI \o OptPI \o OptPI,
     OptPI \o OptMTU(5, 120) \o OptPI \o OptRDNSS \o OptRI(0) \o OptPI \o OptSLLA(MacA),
     OptRDNSS \o OptPI \o OptDNSSL \o OptUnknown \o OptPI \o OptRDNSS,
     OptSLLA(MacA) \o OptDNSSL \o OptDNSSL,
     OptUnknown \o OptRDNSS \o OptUnknown \o OptUnknown \o OptPI \o OptUnknown,
     OptSLLALong \o OptPI \o OptMTU(5, 120) \o OptRDNSS}

RAOptPackets ==
    {RABase(RouterLL, 1800, OptSLLA(MacA) \o m) : m \in MtuOptions}
    \cup {RABase(RouterLL, 0, OptMTU(5, 120)), RABase(OwnLL, 1800, OptMTU(5, 0))}
    \cup {RABase(RouterLL, 1800, t) : t \in OptionTrains}
    \cup {[RABase(RouterLL, 1800, OptPI \o OptMTU(5, 120) \o OptRDNSS) EXCEPT !.nodetype = NDISC_NODETYPE_NODEFAULT]}

RAOptProfiles ==
    {<<HostNet, HostIdev>>,
     <<HostNet, [HostIdev EXCEPT !.cnf.accept_ra_pinfo = FALSE]>>,
     <<HostNet, [HostIdev EXCEPT !.cnf.accept_ra_defrtr = FALSE]>>,
     <<HostNet, [HostIdev EXCEPT !.cnf.accept_ra = 0]>>,
     <<HostNet, [HostIdev EXCEPT !.cnf.mtu6 = 1400]>>}

RAOptInit ==
    /\ ndisc_sk = ndisc_net_init
    /\ \E p \in RAOptProfiles : net = p[1] /\ idev = p[2]
    /\ nd_tbl = [a \in NeighKeys |-> NoNeigh]
    /\ rt6 = [a \in NeighKeys |-> NoRoute]
    /\ proxy_queue = <<>>
    /\ jiffies = 0
    /\ sent = <<>> /\ calls = <<>> /\ refs = NoRefs /\ last = NoLast /\ tasks = NoTasks
    /\ CodecIdle

\* icmpv6_rcv hands a Router Advertisement to ndisc_rcv
RouterAdvertOptions ==
    \E skb \in RAOptPackets : \E env \in {EnvOk, Fault("rt_ok"), Fault("neigh_ok")} :
        Step(ndisc_rcv(Begin, skb, env), [op |-> "ndisc_rcv", skb |-> skb, env |-> env])

SpecRAOptions == RAOptInit /\ [][RouterAdvertOptions]_vars

(***************************************************************************)
(* A node whose neighbour timer asks ndisc_solicit for the next probe.     *)
(***************************************************************************)
\* the interface with one of its addresses in another state
WithAddr(a, st) == [HostNet EXCEPT !.addrs[a] = st]
\* the probe counts of the neighbour parameters
WithProbes(u, a) == [HostIdev EXCEPT !.nd_parms.ucast_probes = u, !.nd_parms.app_probes = a]

SolicitProfiles ==
    {<<HostNet, HostIdev>>,
     <<HostNet, WithProbes(3, 2)>>,
     <<[HostNet EXCEPT !.config.arpd = TRUE], WithProbes(3, 2)>>,
     <<HostNet, WithProbes(0, 0)>>,
     <<WithAddr(OwnLL, Tentative), HostIdev>>,
     <<WithAddr(OwnLL, Optimistic), WithProbes(3, 2)>>,
     <<WithAddr(OwnGlobal, Tentative), HostIdev>>,
     <<[HostNet EXCEPT !.addrs = (OwnLL :> NoIfaddr) @@ (OwnGlobal :> Ready)], HostIdev>>,
     <<[HostNet EXCEPT !.dev = ccmni0], HostIdev>>}

\* the packet waiting for the entry, if any
QueuedSkbs ==
    {NoSkbQueued} \cup {[present |-> TRUE, saddr |-> a] : a \in {OwnGlobal, OwnLL, OtherAddr}}

SolicitEnvs == {EnvOk, Fault("alloc_ok"), Fault("dst_ok"), Fault("nf_ok")}

SolicitInit ==
    /\ ndisc_sk = ndisc_net_init
    /\ \E p \in SolicitProfiles : net = p[1] /\ idev = p[2]
    /\ nd_tbl = [a \in NeighKeys |-> NoNeigh]
    /\ rt6 = [a \in NeighKeys |-> NoRoute]
    /\ proxy_queue = <<>>
    /\ jiffies = 0
    /\ sent = <<>> /\ calls = <<>> /\ refs = NoRefs /\ last = NoLast /\ tasks = NoTasks
    /\ CodecIdle

SolicitProbe ==
    \E target \in {RouterLL, OtherAddr}, probes \in 0..MaxProbes, env \in SolicitEnvs, skb \in QueuedSkbs :
        Step(ndisc_solicit(Begin, target, skb, probes, env),
             [op |-> "ndisc_solicit", target |-> target, probes |-> probes, skb |-> skb, env |-> env])

SpecSolicit == SolicitInit /\ [][SolicitProbe]_vars

(***************************************************************************)
(* ndisc_constructor: what neigh_create is given for a new entry.          *)
(***************************************************************************)
RTN_UNICAST == "RTN_UNICAST"
RTN_LOCAL == "RTN_LOCAL"
RTN_MULTICAST == "RTN_MULTICAST"
EINVAL == 22

\* ndisc_generic_ops, ndisc_hh_ops and ndisc_direct_ops
ndisc_ops(name) ==
    IF name = "ndisc_generic_ops"
    THEN [name |-> name, output |-> "neigh_resolve_output", connected_output |-> "neigh_connected_output"]
    ELSE IF name = "ndisc_hh_ops"
    THEN [name |-> name, output |-> "neigh_resolve_output", connected_output |-> "neigh_resolve_output"]
    ELSE [name |-> name, output |-> "neigh_direct_output", connected_output |-> "neigh_direct_output"]

\* Mutant: a multicast address gets the direct operations on every interface.
ndisc_constructor_neigh_McDirect(addr, dev, has_idev, parms) ==
    LET is_multicast == ipv6_addr_is_multicast(addr)
        n0 == [present |-> TRUE, nud_state |-> NUD_NONE, ha |-> ZeroLL(dev), router |-> FALSE,
               type |-> IF is_multicast THEN RTN_MULTICAST ELSE RTN_UNICAST,
               parms |-> parms, ops |-> "none", output |-> "none"]
        n1 == IF is_multicast
              THEN [n0 EXCEPT !.nud_state = NUD_NOARP, !.ha = ndisc_mc_map(addr, dev)]
              ELSE IF dev.flags \cap {"IFF_NOARP", "IFF_LOOPBACK"} # {}
              THEN [n0 EXCEPT !.nud_state = NUD_NOARP, !.ha = SubSeq(dev.dev_addr, 1, dev.addr_len),
                              !.type = IF "IFF_LOOPBACK" \in dev.flags THEN RTN_LOCAL ELSE @]
              ELSE IF "IFF_POINTOPOINT" \in dev.flags
              THEN [n0 EXCEPT !.nud_state = NUD_NOARP, !.ha = SubSeq(dev.broadcast, 1, dev.addr_len)]
              ELSE n0
        ops == ndisc_ops(IF dev.hh_cache THEN "ndisc_hh_ops" ELSE "ndisc_generic_ops")
    IN  IF ~has_idev THEN [ret |-> -EINVAL, neigh |-> NoNeigh]
        ELSE IF ~dev.header_ops \/ is_multicast
        THEN [ret |-> 0, neigh |-> [n1 EXCEPT !.nud_state = NUD_NOARP, !.ops = "ndisc_direct_ops",
                                                !.output = "neigh_direct_output"]]
        ELSE [ret |-> 0, neigh |-> [n1 EXCEPT !.ops = ops.name,
                                      !.output = IF n1.nud_state \in NUD_VALID
                                                 THEN ops.connected_output ELSE ops.output]]

\* ndisc_constructor(neigh) for the key addr on the device dev: what it
\* returns and the entry it leaves
ndisc_constructor_neigh(addr, dev, has_idev, parms) ==
    LET is_multicast == ipv6_addr_is_multicast(addr)
        n0 == [present |-> TRUE, nud_state |-> NUD_NONE, ha |-> ZeroLL(dev), router |-> FALSE,
               type |-> IF is_multicast THEN RTN_MULTICAST ELSE RTN_UNICAST,
               parms |-> parms, ops |-> "none", output |-> "none"]
        n1 == IF is_multicast
              THEN [n0 EXCEPT !.nud_state = NUD_NOARP, !.ha = ndisc_mc_map(addr, dev)]
              ELSE IF dev.flags \cap {"IFF_NOARP", "IFF_LOOPBACK"} # {}
              THEN [n0 EXCEPT !.nud_state = NUD_NOARP, !.ha = SubSeq(dev.dev_addr, 1, dev.addr_len),
                              !.type = IF "IFF_LOOPBACK" \in dev.flags THEN RTN_LOCAL ELSE @]
              ELSE IF "IFF_POINTOPOINT" \in dev.flags
              THEN [n0 EXCEPT !.nud_state = NUD_NOARP, !.ha = SubSeq(dev.broadcast, 1, dev.addr_len)]
              ELSE n0
        ops == ndisc_ops(IF dev.hh_cache THEN "ndisc_hh_ops" ELSE "ndisc_generic_ops")
    IN  IF ~has_idev THEN [ret |-> -EINVAL, neigh |-> NoNeigh]
        ELSE IF ~dev.header_ops
        THEN [ret |-> 0, neigh |-> [n0 EXCEPT !.nud_state = NUD_NOARP, !.ops = "ndisc_direct_ops",
                                                !.output = "neigh_direct_output"]]
        ELSE [ret |-> 0, neigh |-> [n1 EXCEPT !.ops = ops.name,
                                      !.output = IF n1.nud_state \in NUD_VALID
                                                 THEN ops.connected_output ELSE ops.output]]

\* the interfaces entries are made on: header_ops and its cache hook, the flags
WithHeader(dev, cache, flags) == [hh_cache |-> cache] @@ [dev EXCEPT !.header_ops = TRUE, !.flags = flags]
Headerless(dev, flags) == [hh_cache |-> FALSE] @@ [dev EXCEPT !.header_ops = FALSE, !.flags = flags]
ib0 == [eth0 EXCEPT !.name = <<"i", "b", "0">>, !.type = ARPHRD_INFINIBAND]

ConstructorDevs ==
    {WithHeader(eth0, c, f) : c \in BOOLEAN,
                              f \in {{}, {"IFF_NOARP"}, {"IFF_LOOPBACK"}, {"IFF_POINTOPOINT"},
                                     {"IFF_NOARP", "IFF_POINTOPOINT"}}}
    \cup {WithHeader(ib0, FALSE, {}), Headerless(eth0, {}), Headerless(eth0, {"IFF_LOOPBACK"}),
          Headerless(ccmni0, {"IFF_NOARP", "IFF_POINTOPOINT"})}

ConstructorKeys == {RouterLL, OtherAddr, SolNode(RouterLL), in6addr_linklocal_allrouters}

ConstructorInit ==
    /\ ndisc_sk = ndisc_net_init
    /\ \E dev \in ConstructorDevs, has \in BOOLEAN : net = [HostNet EXCEPT !.dev = dev, !.has_idev = has]
    /\ idev = HostIdev
    /\ nd_tbl = [a \in ConstructorKeys |-> NoNeigh]
    /\ rt6 = [a \in NeighKeys |-> NoRoute]
    /\ proxy_queue = <<>>
    /\ jiffies = 0
    /\ sent = <<>> /\ calls = <<>> /\ refs = NoRefs /\ last = NoLast /\ tasks = NoTasks
    /\ CodecIdle

\* neigh_create has allocated an entry for addr and calls the constructor;
\* an entry whose constructor fails is not put into the table
NeighCreate ==
    \E addr \in ConstructorKeys :
        /\ ~nd_tbl[addr].present
        /\ LET r == ndisc_constructor_neigh(addr, net.dev, net.has_idev, idev.nd_parms)
               S == IF r.ret = 0 THEN Put(Hold([Begin EXCEPT !.nd_tbl[addr] = r.neigh], "idev"), "idev")
                    ELSE Begin
           IN  Step(S, [op |-> "ndisc_constructor", addr |-> addr, ret |-> r.ret])

SpecConstructor == ConstructorInit /\ [][NeighCreate]_vars

(***************************************************************************)
(* A router that sends Redirects for packets of many lengths.              *)
(***************************************************************************)
\* an interface with link-layer addresses of n bytes
LLDev(name, type, n) ==
    [eth0 EXCEPT !.name = name, !.type = type, !.addr_len = n,
                 !.dev_addr = [i \in 1..n |-> 2], !.broadcast = [i \in 1..n |-> 255]]
ib1 == LLDev(<<"i", "b", "1">>, ARPHRD_INFINIBAND, 20)
\* MAX_ADDR_LEN bytes of address
MAX_ADDR_LEN == 32
long0 == LLDev(<<"l", "o", "n", "g", "0">>, "ARPHRD_VOID", MAX_ADDR_LEN)
RedirectDevs == {eth0, ccmni0, ib1, long0}

\* the lengths of the packets being forwarded: the shortest, some around the
\* place where the Redirect reaches the minimum MTU, and the MTU of Ethernet
RedirectLens == {40, 43, 47, 48, 1151, 1152, 1160, 1167, 1168, 1183, 1184, 1185, 1191, 1192, 1193, 1500}
\* the packet: byte i of it is i modulo 251
RedirectForwarded ==
    {[saddr |-> s, daddr |-> OtherAddr, data |-> [i \in 1..n |-> i % 251]] :
         s \in {NodeLL, Global(6)}, n \in RedirectLens}

\* what the cache holds for the better first hop
RedirectSeeds(dev) ==
    {NoNeigh, NeighEntry(NUD_INCOMPLETE, [i \in 1..dev.addr_len |-> 0], FALSE),
     NeighEntry(NUD_REACHABLE, [i \in 1..dev.addr_len |-> 170], TRUE)}

RedirectInit ==
    /\ ndisc_sk = ndisc_net_init
    /\ \E dev \in RedirectDevs :
          /\ net = [RouterNet EXCEPT !.dev = dev]
          /\ \E e \in RedirectSeeds(dev) : nd_tbl = [a \in NeighKeys |-> IF a = RouterLL THEN e ELSE NoNeigh]
    /\ idev = RouterIdev
    /\ rt6 = [a \in NeighKeys |-> NoRoute]
    /\ proxy_queue = <<>>
    /\ jiffies = 0
    /\ sent = <<>> /\ calls = <<>> /\ refs = NoRefs /\ last = NoLast /\ tasks = NoTasks
    /\ CodecIdle

RedirectSend ==
    \E skb \in RedirectForwarded, target \in {RouterLL},
       env \in {EnvOk, Fault("alloc_ok"), Fault("neigh_ok"), [EnvOk EXCEPT !.rt_gateway = TRUE]} :
        Step(ndisc_send_redirect(Begin, skb, target, env),
             [op |-> "ndisc_send_redirect", skb |-> skb, target |-> target, env |-> env])

SpecRedirect == RedirectInit /\ [][RedirectSend]_vars

(***************************************************************************)
(* ndisc_netdev_event and ndisc_send_unsol_na.                             *)
(***************************************************************************)
NETDEV_UP == "NETDEV_UP"
NETDEV_DOWN == "NETDEV_DOWN"
NETDEV_CHANGEMTU == "NETDEV_CHANGEMTU"
NETDEV_CHANGEADDR == "NETDEV_CHANGEADDR"
NETDEV_NOTIFY_PEERS == "NETDEV_NOTIFY_PEERS"

\* the addresses of a set, the lowest interface identifier first
RECURSIVE InOrder(_)
InOrder(as) ==
    IF as = {} THEN <<>>
    ELSE LET a == CHOOSE x \in as : \A y \in as : x.n <= y.n
         IN  <<a>> \o InOrder(as \ {a})

\* idev->addr_list: the addresses of the interface, the widest scope first
addr_list(n) ==
    InOrder({a \in DOMAIN n.addrs : n.addrs[a].present /\ a.k = "gl"})
    \o InOrder({a \in DOMAIN n.addrs : n.addrs[a].present /\ a.k = "ll"})

\* the list_for_each_entry of ndisc_send_unsol_na over the addresses as
RECURSIVE unsol_na_loop(_, _, _)
unsol_na_loop(S, as, env) ==
    IF as = <<>> THEN S
    ELSE unsol_na_loop(ndisc_send_na(S, in6addr_linklocal_allnodes, Head(as),
                                     S.idev.cnf.forwarding, FALSE, TRUE, TRUE, env),
                       Tail(as), env)

\* Mutant: only the first address of the interface is advertised.
ndisc_send_unsol_na_FirstOnly(S, env) ==
    IF ~net.has_idev THEN S
    ELSE Put(unsol_na_loop(Hold(S, "idev"), SubSeq(addr_list(net), 1, 1), env), "idev")

ndisc_send_unsol_na(S, env) ==
    IF ~net.has_idev THEN S
    ELSE Put(unsol_na_loop(Hold(S, "idev"), addr_list(net), env), "idev")

\* neigh_changeaddr and neigh_ifdown of the generic cache: the entries of
\* the device leave the table; neigh_ifdown also empties the proxy queue
neigh_changeaddr(S) ==
    Invoke([S EXCEPT !.nd_tbl = [a \in DOMAIN @ |-> NoNeigh]], Call("neigh_changeaddr", in6addr_any, 0, FALSE))
neigh_ifdown(S) ==
    Invoke([S EXCEPT !.nd_tbl = [a \in DOMAIN @ |-> NoNeigh], !.proxy_queue = <<>>],
           Call("neigh_ifdown", in6addr_any, 0, FALSE))
\* fib6_run_gc(~0UL, net): the collector of the routing table is asked to run
fib6_run_gc(S) == Invoke(S, Call("fib6_run_gc", in6addr_any, 0, FALSE))

ndisc_netdev_event(S, event, env) ==
    IF event = NETDEV_CHANGEADDR
    THEN LET S1 == fib6_run_gc(neigh_changeaddr(S))
         IN  IF ~net.has_idev THEN S1
             ELSE IF S1.idev.cnf.ndisc_notify
             THEN Put(ndisc_send_unsol_na(Hold(S1, "idev"), env), "idev")
             ELSE Put(Hold(S1, "idev"), "idev")
    ELSE IF event = NETDEV_DOWN THEN fib6_run_gc(neigh_ifdown(S))
    ELSE IF event = NETDEV_NOTIFY_PEERS THEN ndisc_send_unsol_na(S, env)
    ELSE S

(***************************************************************************)
(* A node whose interface gets device events.                              *)
(***************************************************************************)
Notifying(d) == [d EXCEPT !.cnf.ndisc_notify = TRUE]
NetdevProfiles ==
    {<<HostNet, HostIdev>>,
     <<HostNet, Notifying(HostIdev)>>,
     <<RouterNet, Notifying(RouterIdev)>>,
     <<RouterNet, RouterIdev>>,
     <<[HostNet EXCEPT !.addrs[OwnGlobal] = Optimistic], Notifying(HostIdev)>>,
     <<[HostNet EXCEPT !.addrs[OwnGlobal] = Tentative], Notifying(HostIdev)>>,
     <<[HostNet EXCEPT !.dev = ccmni0], Notifying(HostIdev)>>,
     <<[HostNet EXCEPT !.addrs = (OwnLL :> Ready) @@ (OwnGlobal :> NoIfaddr)], Notifying(HostIdev)>>,
     <<[HostNet EXCEPT !.has_idev = FALSE, !.addrs = (OwnLL :> NoIfaddr) @@ (OwnGlobal :> NoIfaddr)],
       Notifying(HostIdev)>>}

NetdevEvents == {NETDEV_UP, NETDEV_DOWN, NETDEV_CHANGEMTU, NETDEV_CHANGEADDR, NETDEV_NOTIFY_PEERS}

NetdevInit ==
    /\ ndisc_sk = ndisc_net_init
    /\ \E p \in NetdevProfiles :
          /\ net = p[1] /\ idev = p[2]
          /\ \E t \in NeighSeeds(p[1]) :
                /\ nd_tbl = [a \in NeighKeys |-> IF a = RouterLL THEN t[1] ELSE NoNeigh]
                /\ rt6 = [a \in NeighKeys |-> IF a = RouterLL THEN t[2] ELSE NoRoute]
    /\ proxy_queue = <<>>
    /\ jiffies = 0
    /\ sent = <<>> /\ calls = <<>> /\ refs = NoRefs /\ last = NoLast /\ tasks = NoTasks
    /\ CodecIdle

NetdevEvent ==
    \E event \in NetdevEvents, env \in {EnvOk, Fault("alloc_ok"), Fault("dst_ok"), Fault("nf_ok")} :
        Step(ndisc_netdev_event(Begin, event, env), [op |-> "ndisc_netdev_event", event |-> event, env |-> env])

SpecNetdev == NetdevInit /\ [][NetdevEvent]_vars

(***************************************************************************)
(* The two writers of the reachable time of an interface.  The RA handler  *)
(* runs in the receive softirq and ndisc_ifinfo_sysctl_change in the       *)
(* process that writes the sysctl; neither takes a lock around its         *)
(* accesses to idev->nd_parms, so the loads and stores of the two are      *)
(* interleaved one by one.  What else an RA does is in                     *)
(* ndisc_router_discovery and does not touch these fields.                 *)
(***************************************************************************)
\* the reachable times RAs advertise, in milliseconds, and the values
\* written to the sysctl, in ticks
RaceReachable == {U32(1000), U32(30000), U32(600000)}
RaceWritten == {HZ, 30 * HZ, 600 * HZ}

RaceInit ==
    /\ ndisc_sk = ndisc_net_init
    /\ net = HostNet /\ idev = HostIdev
    /\ nd_tbl = [a \in NeighKeys |-> NoNeigh]
    /\ rt6 = [a \in NeighKeys |-> NoRoute]
    /\ proxy_queue = <<>>
    /\ jiffies \in {0, 1}
    /\ sent = <<>> /\ calls = <<>> /\ refs = NoRefs /\ last = NoLast /\ tasks = NoTasks
    /\ CodecIdle

\* a step of one of the two: the interface and the tasks change
RaceStep(d, c, t, op) ==
    /\ idev' = d /\ calls' = c /\ tasks' = t
    /\ last' = [op |-> op]
    /\ UNCHANGED <<ndisc_sk, net, nd_tbl, rt6, proxy_queue, jiffies, sent, refs,
                   obuf, olen, ores, ocfg, odev, oin>>

\* proc_dointvec, proc_dointvec_jiffies: the value parsed from the buffer of
\* the writer is stored into the integer ctl->data points to
proc_dointvec(d, procname, v) ==
    IF procname = "base_reachable_time"
    THEN [d EXCEPT !.nd_parms.base_reachable_time = v]
    ELSE [d EXCEPT !.nd_parms.retrans_time = v]

\* "rtime = ntohl(ra_msg->reachable_time)" of an RA that got to skip_defrtr,
\* the test of its range and its conversion to ticks
RaReachableBegin ==
    /\ tasks.ra.pc = "idle"
    /\ \E ms \in RaceReachable \cup {U32(0)}, rnd \in RndValues :
          RaceStep(idev, calls,
                   [tasks EXCEPT !.ra = IF ~u32_is_zero(ms) /\ u32_div1000(ms) < MAX_SCHEDULE_TIMEOUT \div (3 * HZ)
                                        THEN [pc |-> "compare", rtime |-> ra_ticks(ms), rnd |-> rnd]
                                        ELSE [pc |-> "done"]],
                   "ndisc_router_discovery")

\* "if (rtime != in6_dev->nd_parms->base_reachable_time)"
RaCompare ==
    /\ tasks.ra.pc = "compare"
    /\ RaceStep(idev, calls,
                [tasks EXCEPT !.ra.pc = IF tasks.ra.rtime # idev.nd_parms.base_reachable_time
                                        THEN "store_base" ELSE "done"],
                "ndisc_router_discovery")

\* "in6_dev->nd_parms->base_reachable_time = rtime" and gc_staletime
RaStoreBase ==
    /\ tasks.ra.pc = "store_base"
    /\ RaceStep([idev EXCEPT !.nd_parms.base_reachable_time = tasks.ra.rtime,
                             !.nd_parms.gc_staletime = 3 * tasks.ra.rtime],
                calls, [tasks EXCEPT !.ra.pc = "store_reachable"], "ndisc_router_discovery")

\* "in6_dev->nd_parms->reachable_time = neigh_rand_reach_time(rtime)", the
\* time stamp and the notification
RaStoreReachable ==
    /\ tasks.ra.pc = "store_reachable"
    /\ RaceStep([idev EXCEPT !.nd_parms.reachable_time = neigh_rand_reach_time(tasks.ra.rtime, tasks.ra.rnd),
                             !.tstamp = jiffies],
                Append(calls, Call("inet6_ifinfo_notify", in6addr_any, 0, FALSE)), [tasks EXCEPT !.ra.pc = "done"], "ndisc_router_discovery")

\* ndisc_ifinfo_sysctl_change: proc_dointvec_jiffies (or proc_dointvec for
\* retrans_time) has parsed the value and stores it into ctl->data; a read,
\* or a write that does not parse, stores nothing and ends the handler
SysctlBegin ==
    /\ tasks.sysctl.pc = "idle"
    /\ \E procname \in {"base_reachable_time", "retrans_time"}, write \in BOOLEAN, ok \in BOOLEAN,
          v \in RaceWritten, rnd \in RndValues :
          IF write /\ ok
          THEN RaceStep(proc_dointvec(idev, procname, v), calls,
                        [tasks EXCEPT !.sysctl = [pc |-> IF procname = "base_reachable_time" THEN "load_base" ELSE "stamp",
                                                  procname |-> procname, rnd |-> rnd, base |-> 0]],
                        "ndisc_ifinfo_sysctl_change")
          ELSE RaceStep(idev, calls, [tasks EXCEPT !.sysctl = [pc |-> "done"]], "ndisc_ifinfo_sysctl_change")

\* the argument of neigh_rand_reach_time: idev->nd_parms->base_reachable_time is read
SysctlLoadBase ==
    /\ tasks.sysctl.pc = "load_base"
    /\ RaceStep(idev, calls,
                [tasks EXCEPT !.sysctl.pc = "store_reachable", !.sysctl.base = idev.nd_parms.base_reachable_time],
                "ndisc_ifinfo_sysctl_change")

\* "idev->nd_parms->reachable_time = neigh_rand_reach_time(...)"
SysctlStoreReachable ==
    /\ tasks.sysctl.pc = "store_reachable"
    /\ RaceStep([idev EXCEPT !.nd_parms.reachable_time = neigh_rand_reach_time(tasks.sysctl.base, tasks.sysctl.rnd)],
                calls, [tasks EXCEPT !.sysctl.pc = "stamp"], "ndisc_ifinfo_sysctl_change")

\* "idev->tstamp = jiffies" and the notification
SysctlStamp ==
    /\ tasks.sysctl.pc = "stamp"
    /\ RaceStep([idev EXCEPT !.tstamp = jiffies], Append(calls, Call("inet6_ifinfo_notify", in6addr_any, 0, FALSE)),
                [tasks EXCEPT !.sysctl.pc = "done"], "ndisc_ifinfo_sysctl_change")

RaceNext ==
    \/ RaReachableBegin
    \/ RaCompare
    \/ RaStoreBase
    \/ RaStoreReachable
    \/ SysctlBegin
    \/ SysctlLoadBase
    \/ SysctlStoreReachable
    \/ SysctlStamp

SpecSysctl == RaceInit /\ [][RaceNext]_vars
(***************************************************************************)
(* Reference definitions the claims about the parser are stated with.      *)
(***************************************************************************)
RECURSIVE SumUnits(_)
SumUnits(ls) == IF ls = <<>> THEN 0 ELSE 8 * Head(ls) + SumUnits(Tail(ls))

UnitSeqs == UNION {[1..k -> 1..MaxLenUnits] : k \in 0..(MaxOptLen \div 8)}

StartOf(ls, i) == SumUnits(SubSeq(ls, 1, i - 1))

\* ls is the list of the length fields of options that tile the first
\* SumUnits(ls) bytes of an area of n bytes.
Tiles(buf, n, ls) ==
    /\ SumUnits(ls) <= n
    /\ \A i \in 1..Len(ls) : ByteAt(buf, StartOf(ls, i) + 1) = ls[i]

WellFormed(buf, n) == \E ls \in UnitSeqs : Tiles(buf, n, ls) /\ SumUnits(ls) = n

\* After some whole options the walk meets an option it must reject.
BadOptionAt(buf, n, c) ==
    \/ n - c = 1
    \/ n - c >= 2 /\ ByteAt(buf, c + 1) = 0
    \/ n - c >= 2 /\ ByteAt(buf, c + 1) * 8 > n - c

Malformed(buf, n) ==
    \E ls \in UnitSeqs :
        /\ Tiles(buf, n, ls)
        /\ SumUnits(ls) < n
        /\ BadOptionAt(buf, n, SumUnits(ls))

\* C3: ndisc_parse_options succeeds exactly on opt_len >= 0 and an area tiled
\* by options of non-zero length that sum to opt_len; it fails on a negative
\* opt_len and whenever the walk meets an option of length 0, an option longer
\* than what remains, or a single remaining byte.
C3_ParseIffWellFormed ==
    ores.done =>
        /\ ores.ok <=> (olen >= 0 /\ WellFormed(obuf, olen))
        /\ (olen < 0 \/ Malformed(obuf, olen)) => ~ores.ok

C3_Witness ==
    /\ ores.done /\ ores.ok /\ olen = 24
    /\ ByteAt(obuf, 1) = 2 /\ ByteAt(obuf, 17) = 1

\* The offsets at which the options of an area start.
OptionStarts(buf, n) ==
    {SumUnits(ls) : ls \in {l \in UnitSeqs : Tiles(buf, n, l) /\ SumUnits(l) < n}}

SetMin(S) == CHOOSE x \in S : \A y \in S : x <= y

FirstOfType(buf, starts, t) ==
    LET S == {c \in starts : ByteAt(buf, c) = t}
    IN  IF S = {} THEN NULL ELSE SetMin(S)

Slots(nd) ==
    <<nd.arr[0], nd.arr[1], nd.arr[2], nd.arr[3], nd.arr[4], nd.arr[5],
      nd.ri, nd.ri_end, nd.useropts, nd.useropts_end>>

\* C4: after a successful parse every singleton slot (source-LL, target-LL,
\* MTU, redirect-header) holds the first option of its type, and every
\* recorded position is the start of an option that lies whole inside
\* [opt, opt + opt_len).
C4_FirstInstanceInBounds ==
    (ores.done /\ ores.ok) =>
        /\ LET starts == OptionStarts(obuf, olen)
           IN  \A t \in {ND_OPT_SOURCE_LL_ADDR, ND_OPT_TARGET_LL_ADDR,
                         ND_OPT_MTU, ND_OPT_REDIRECT_HDR} :
                  ores.opts.arr[t] = FirstOfType(obuf, starts, t)
        /\ \A k \in 1..Len(Slots(ores.opts)) :
              LET p == Slots(ores.opts)[k]
              IN  p # NULL =>
                    /\ 0 <= p /\ p + sizeof_nd_opt_hdr <= olen
                    /\ ByteAt(obuf, p + 1) > 0
                    /\ p + 8 * ByteAt(obuf, p + 1) <= olen

\* Three source-LL options: the slot holds the first.
C4_Witness ==
    /\ ores.done /\ ores.ok /\ olen = 24
    /\ \A c \in {0, 8, 16} :
          ByteAt(obuf, c) = ND_OPT_SOURCE_LL_ADDR /\ ByteAt(obuf, c + 1) = 1
    /\ ores.opts.arr[ND_OPT_SOURCE_LL_ADDR] = 0

RecognisedTypes ==
    {ND_OPT_SOURCE_LL_ADDR, ND_OPT_TARGET_LL_ADDR, ND_OPT_PREFIX_INFO,
     ND_OPT_REDIRECT_HDR, ND_OPT_MTU, ND_OPT_ROUTE_INFO, ND_OPT_RDNSS,
     ND_OPT_DNSSL}

\* A well-formed area with its options of unrecognised type taken out.
RECURSIVE StripUnknown(_, _, _)
StripUnknown(buf, pos, n) ==
    IF pos >= n THEN <<>>
    ELSE LET l == 8 * ByteAt(buf, pos + 1)
         IN  IF ByteAt(buf, pos) \in RecognisedTypes
             THEN SubSeq(buf, pos + 1, pos + l) \o StripUnknown(buf, pos + l, n)
             ELSE StripUnknown(buf, pos + l, n)

\* Where the option at offset p of buf is found in StripUnknown(buf).
RECURSIVE Shifted(_, _, _)
Shifted(buf, pos, p) ==
    IF pos >= p THEN p
    ELSE LET l == 8 * ByteAt(buf, pos + 1)
         IN  IF ByteAt(buf, pos) \in RecognisedTypes
             THEN Shifted(buf, pos + l, p)
             ELSE Shifted(buf, pos + l, p) - l

\* C5: taking the options of unrecognised type out of a well-formed area (or
\* putting them in) changes neither the success of the parse nor which
\* recognised option each slot records.
C5_UnknownSkipped ==
    (ores.done /\ ores.ok) =>
        LET s == StripUnknown(obuf, 0, olen)
            r == ndisc_parse_options(s, Len(s), ocfg)
        IN  /\ r.ok
            /\ \A k \in 1..Len(Slots(r.opts)) :
                  Slots(r.opts)[k] =
                      IF Slots(ores.opts)[k] = NULL THEN NULL
                      ELSE Shifted(obuf, 0, Slots(ores.opts)[k])

\* An unknown option between a prefix-info and a source-LL option.
C5_Witness ==
    /\ ores.done /\ ores.ok /\ olen = 24
    /\ ByteAt(obuf, 0) = ND_OPT_PREFIX_INFO /\ ByteAt(obuf, 1) = 1
    /\ ByteAt(obuf, 8) = 26 /\ ByteAt(obuf, 9) = 1
    /\ ByteAt(obuf, 16) = ND_OPT_SOURCE_LL_ADDR /\ ByteAt(obuf, 17) = 1
    /\ ores.opts.arr[ND_OPT_SOURCE_LL_ADDR] = 16
    /\ ores.opts.useropts = NULL

CeilDiv(a, b) == (a + b - 1) \div b

\* C6: the option ndisc_fill_addr_option writes is an area the parser accepts
\* and consumes exactly; the slot of its type is set; its length field is
\* ceil((2 + pad + addr_len) / 8); its address bytes are the address given;
\* its pad and trailing bytes are zero.
C6_FillParseRoundTrip ==
    LET pad   == ndisc_addr_option_pad(odev.type)
        space == 8 * CeilDiv(2 + pad + odev.addr_len, 8)
    IN  /\ ~oin.pending =>
              /\ Len(obuf) = space
              /\ ByteAt(obuf, 0) = oin.type
              /\ ByteAt(obuf, 1) = CeilDiv(2 + pad + odev.addr_len, 8)
              /\ \A i \in 2..space - 1 :
                    ByteAt(obuf, i) =
                        IF i >= 2 + pad /\ i < 2 + pad + odev.addr_len
                        THEN oin.data[i - 1 - pad]
                        ELSE 0
        /\ ores.done =>
              /\ ores.ok
              /\ \A t \in 0..5 : ores.opts.arr[t] = IF t = oin.type THEN 0 ELSE NULL
              /\ ndisc_opt_addr_data(obuf, ores.opts.arr[oin.type], odev) = 2 + pad
              /\ \A i \in 1..odev.addr_len :
                    ByteAt(obuf, ndisc_opt_addr_data(obuf, 0, odev) + i - 1) = oin.data[i]

\* An Infiniband address option with pad, address and trailing bytes.
C6_Witness ==
    /\ ores.done /\ ores.ok
    /\ odev.type = ARPHRD_INFINIBAND /\ odev.addr_len = 3
    /\ oin.type = ND_OPT_TARGET_LL_ADDR
    /\ Len(obuf) = 16 /\ ByteAt(obuf, 1) = 2


(***************************************************************************)
(* The claims about the receive pipeline and the emitter.                  *)
(***************************************************************************)
DadFailureCalled(c) == \E i \in 1..Len(c) : c[i].fn = "addrconf_dad_failure"

\* the step that ends was ndisc_rcv of a packet with the wrong hop limit or code
HeaderRejected(l) == l.op = "ndisc_rcv" /\ (l.skb.hop_limit # 255 \/ l.skb.code # 0)

\* C1: a packet given to ndisc_rcv whose hop limit is not 255 or whose ICMPv6
\* code is not 0 reaches no handler: the neighbour cache, the default-router
\* list, the interface parameters and the proxy queue stay as they were, no
\* collaborator is called (DAD failure among them), no reference is taken and
\* nothing is emitted.
C1_BadHeaderNoHandler ==
    [][HeaderRejected(last') =>
          /\ nd_tbl' = nd_tbl /\ rt6' = rt6 /\ idev' = idev /\ proxy_queue' = proxy_queue
          /\ sent' = <<>> /\ calls' = <<>> /\ refs' = NoRefs
          /\ ~DadFailureCalled(calls')]_vars

\* a rejected packet arrived at a node that has a neighbour and a default router
C1_Witness ==
    /\ HeaderRejected(last)
    /\ last.env = EnvOk
    /\ \E a \in NeighKeys : nd_tbl[a].present /\ rt6[a].present

\* the option area holds an option of this type at an option boundary
RECURSIVE CarriesOption(_, _, _)
CarriesOption(opt, at, type) ==
    IF at + 2 > Len(opt) THEN FALSE
    ELSE IF ByteAt(opt, at) = type THEN TRUE
    ELSE IF ByteAt(opt, at + 1) = 0 THEN FALSE
    ELSE CarriesOption(opt, at + 8 * ByteAt(opt, at + 1), type)

\* the step that ends handled an NS from :: that is not a well-formed DAD probe
BadDadProbe(l) ==
    /\ l.op \in {"ndisc_rcv", "pndisc_redo"}
    /\ l.skb.type = NDISC_NEIGHBOUR_SOLICITATION
    /\ ipv6_addr_any(l.skb.saddr)
    /\ \/ ~ipv6_addr_is_solict_mult(l.skb.daddr)
       \/ CarriesOption(l.skb.opt, 0, ND_OPT_SOURCE_LL_ADDR)

\* C2: an NS whose source is :: and whose destination is not a solicited-node
\* multicast address, or which carries a source link-layer address option, is
\* dropped: DAD failure is not invoked, no NA is emitted, nothing is put on
\* the proxy queue and no neighbour entry is created or updated.
C2_BadDadProbeDropped ==
    [][BadDadProbe(last') =>
          /\ ~DadFailureCalled(calls')
          /\ sent' = <<>>
          /\ proxy_queue' = (IF last'.op = "pndisc_redo" THEN Tail(proxy_queue) ELSE proxy_queue)
          /\ nd_tbl' = nd_tbl]_vars

\* such an NS for an address of the node that is still tentative, where a
\* well-formed probe would have made DAD fail
C2_Witness ==
    /\ BadDadProbe(last)
    /\ last.op = "ndisc_rcv" /\ last.env = EnvOk
    /\ last.skb.hop_limit = 255 /\ last.skb.code = 0 /\ ~last.skb.short
    /\ last.skb.target = OwnGlobal
    /\ ~ipv6_addr_is_solict_mult(last.skb.daddr)
    /\ last.skb.opt = <<>>
    /\ net.addrs[OwnGlobal] = Tentative

EmittedTypes ==
    {NDISC_NEIGHBOUR_SOLICITATION, NDISC_NEIGHBOUR_ADVERTISEMENT, NDISC_ROUTER_SOLICITATION, NDISC_REDIRECT}

\* C7: every NS, NA, RS and Redirect handed to the output path has hop limit
\* 255 and ICMPv6 code 0.
C7_EmittedHopLimitAndCode ==
    \A i \in 1..Len(sent) :
        /\ sent[i].pkt.type \in EmittedTypes
        /\ sent[i].pkt.hop_limit = 255
        /\ sent[i].pkt.code = 0

\* a Redirect was handed to the output path, its options filled in
C7_Witness ==
    /\ last.op = "ndisc_send_redirect"
    /\ Len(sent) = 1
    /\ sent[1].pkt.type = NDISC_REDIRECT
    /\ sent[1].pkt.opt # <<>>

\* the steps whose references the pairing is about: the receive handlers
\* (the replay of a delayed solicitation among them) and ndisc_send_redirect
PairedOps == {"ndisc_rcv", "pndisc_redo", "ndisc_send_redirect"}

\* C8: when a receive handler or ndisc_send_redirect returns, every reference
\* it took (neighbour entry, local address, interface configuration, route,
\* peer) has been released or handed over exactly once: none is still held
\* and none was released without being held.
C8_ReferencesPaired ==
    last.op \in PairedOps =>
        /\ \A k \in RefKinds : refs.held[k] = 0
        /\ ~refs.bad

\* an RA that updated a default router: its route and the sender's neighbour
\* entry were both looked up and both were released
C8_Witness ==
    /\ last.op = "ndisc_rcv"
    /\ last.skb.type = NDISC_ROUTER_ADVERTISEMENT
    /\ refs.taken["rt"] = 1 /\ refs.taken["neigh"] = 1
    /\ rt6[last.skb.saddr].present

(***************************************************************************)
(* Router Advertisements.                                                  *)
(***************************************************************************)
\* the step that ends was ndisc_rcv handing an RA to ndisc_router_discovery
RAStep(l) ==
    /\ l.op = "ndisc_rcv" /\ l.env.linearize_ok
    /\ l.skb.type = NDISC_ROUTER_ADVERTISEMENT
    /\ l.skb.hop_limit = 255 /\ l.skb.code = 0

\* the RA passes every check up to the interface flags: read before the step
RAAccepted(l) ==
    /\ RAStep(l)
    /\ IsLinkLocal(l.skb.saddr)
    /\ ~l.skb.short
    /\ l.skb.nodetype \notin {NDISC_NODETYPE_HOST, NDISC_NODETYPE_NODEFAULT}
    /\ net.has_idev
    /\ ndisc_parse_options(l.skb.opt, Len(l.skb.opt), net.config).ok
    /\ ipv6_accept_ra(idev)

\* the handler goes on to the default router: read before the step
DefrtrGate(l) ==
    /\ idev.cnf.accept_ra_defrtr
    /\ ~strncmp_eq(net.dev.name, ccmni, 2)
    /\ ~ipv6_chk_addr(l.skb.saddr)

\* The statement of C9 as the specification has it: after every accepted RA
\* the source has a default-router entry iff the router lifetime is not zero.
C9_Original ==
    [][(RAAccepted(last') /\ last'.env = EnvOk) =>
          (rt6'[last'.skb.saddr].present <=> last'.skb.rt_lifetime # 0)]_vars

\* C9: an accepted RA changes the default-router list only when
\* accept_ra_defrtr is on, the name of the interface does not begin with
\* "cc" and the source is not an address of the node.  Then, the route and
\* the neighbour entry of the source being obtained, lifetime 0 removes the
\* entry of the source, lifetime > 0 installs one where there is none, and
\* lifetime > 0 sets the expiry to now + lifetime * HZ, so that the entry
\* exists iff the lifetime is not zero.  A route just added stays when the
\* neighbour entry cannot be obtained; in every other case, and for every
\* other source, the list is as it was.
C9_DefaultRouterLifecycle ==
    [][RAStep(last') =>
          LET s     == last'.skb.saddr
              lt    == last'.skb.rt_lifetime
              env   == last'.env
              had   == rt6[s].present
              found == nd_tbl[s].present \/ env.neigh_ok
          IN  IF RAAccepted(last') /\ DefrtrGate(last')
              THEN /\ \A a \in NeighKeys \ {s} : rt6'[a] = rt6[a]
                   /\ (found /\ (had \/ env.rt_ok)) =>
                         /\ rt6'[s].present <=> lt # 0
                         /\ lt # 0 => rt6'[s].expires = jiffies + HZ * lt
                   /\ (~found /\ ~had /\ env.rt_ok /\ lt # 0) => rt6'[s].present
                   /\ (~found /\ (had \/ lt = 0)) => rt6'[s] = rt6[s]
                   /\ (~had /\ ~env.rt_ok) => rt6'[s] = rt6[s]
              ELSE rt6' = rt6]_vars

\* the third RA of a run has lifetime 0 and took the router off the list
C9_Witness ==
    /\ RAStep(last)
    /\ jiffies = MaxRaSteps
    /\ last.skb.rt_lifetime = 0
    /\ refs.taken["rt"] = 1
    /\ ~rt6[last.skb.saddr].present
    /\ nd_tbl[last.skb.saddr].router

\* the RA fails a condition of acceptance: read before the step
RARefused(l) ==
    /\ RAStep(l)
    /\ (~IsLinkLocal(l.skb.saddr) \/ ~ipv6_accept_ra(idev))

\* The statement of C10 as the specification has it: an RA that is not
\* accepted changes nothing, the neighbour cache included.
C10_Original ==
    [][RARefused(last') =>
          /\ rt6' = rt6 /\ idev' = idev /\ calls' = <<>>
          /\ nd_tbl' = nd_tbl]_vars

\* C10: an RA whose source is not link-local changes nothing.  An RA from a
\* link-local source on an interface that does not accept RAs changes no
\* default router and no interface parameter and hands no prefix, route or
\* other option on; in the neighbour cache it creates or updates the entry
\* of its source, and no other.
C10_RefusedRA ==
    [][RARefused(last') =>
          LET s == last'.skb.saddr
          IN  /\ rt6' = rt6 /\ idev' = idev /\ calls' = <<>>
              /\ sent' = <<>> /\ proxy_queue' = proxy_queue
              /\ ~IsLinkLocal(s) => nd_tbl' = nd_tbl
              /\ \A a \in NeighKeys \ {s} : nd_tbl'[a] = nd_tbl[a]
              /\ nd_tbl'[s] # nd_tbl[s] =>
                    /\ nd_tbl'[s].present
                    /\ nd_tbl'[s].nud_state \in {NUD_NONE, NUD_NOARP, NUD_STALE}]_vars

\* an RA with a source link-layer address option arrived on an interface
\* that does not accept RAs: its sender is in the neighbour cache
C10_Witness ==
    /\ RAStep(last)
    /\ ~ipv6_accept_ra(idev)
    /\ IsLinkLocal(last.skb.saddr)
    /\ nd_tbl[last.skb.saddr].present
    /\ nd_tbl[last.skb.saddr].nud_state = NUD_STALE
    /\ nd_tbl[last.skb.saddr].ha = MacA
    /\ rt6 = [a \in NeighKeys |-> NoRoute]

(***************************************************************************)
(* The timers a Router Advertisement sets.                                 *)
(***************************************************************************)
\* the step that ends set a timer of the interface: it told the listeners
TimersUpdated(c) == \E i \in 1..Len(c) : c[i].fn = "inet6_ifinfo_notify"

\* C11: when an RA has set a timer, retrans_time and base_reachable_time are
\* at least HZ / 10 ticks; when it has changed base_reachable_time, the new
\* reachable_time lies between half the new base and one and a half times
\* the new base (in whole ticks), and gc_staletime is three times the base.
C11_TimersClamped ==
    [][(RAStep(last') /\ TimersUpdated(calls')) =>
          LET p == idev'.nd_parms
          IN  /\ p.retrans_time >= HZ \div 10
              /\ p.base_reachable_time >= HZ \div 10
              /\ p.base_reachable_time # idev.nd_parms.base_reachable_time =>
                    /\ p.reachable_time >= p.base_reachable_time \div 2
                    /\ 2 * p.reachable_time <= 3 * p.base_reachable_time
                    /\ p.gc_staletime = 3 * p.base_reachable_time]_vars

\* an RA that advertised 1 ms and 99 ms left both timers at a tenth of a second
C11_Witness ==
    /\ RAStep(last)
    /\ last.skb.reachable_time = U32(1) /\ last.skb.retrans_timer = U32(99)
    /\ idev.nd_parms.base_reachable_time = HZ \div 10
    /\ idev.nd_parms.retrans_time = HZ \div 10
    /\ idev.nd_parms.reachable_time = HZ \div 10 + HZ \div 20 - 1

(***************************************************************************)
(* Neighbour Solicitations.                                                *)
(***************************************************************************)
\* the step that ends was ndisc_rcv handing an NS to ndisc_recv_ns
NSStep(l) ==
    /\ l.op = "ndisc_rcv" /\ l.env.linearize_ok
    /\ l.skb.type = NDISC_NEIGHBOUR_SOLICITATION
    /\ l.skb.hop_limit = 255 /\ l.skb.code = 0

\* the NS is long enough, its target is no multicast address and its options parse
NSValid(skb) ==
    /\ ~skb.short
    /\ ~ipv6_addr_is_multicast(skb.target)
    /\ ndisc_parse_options(skb.opt, Len(skb.opt), net.config).ok

\* a well-formed DAD probe: from ::, to a solicited-node address, no source
\* link-layer address option
DadProbe(skb) ==
    /\ NSValid(skb)
    /\ ipv6_addr_any(skb.saddr)
    /\ ipv6_addr_is_solict_mult(skb.daddr)
    /\ ~CarriesOption(skb.opt, 0, ND_OPT_SOURCE_LL_ADDR)

\* the address is one of the node's and DAD has not finished on it
UnderDad(a) == ipv6_get_ifaddr(a).present /\ ipv6_get_ifaddr(a).flags \cap {IFA_F_TENTATIVE, IFA_F_OPTIMISTIC} # {}

\* C12: a well-formed DAD probe whose target is a local address that is
\* tentative or optimistic has addrconf_dad_failure called on that address
\* exactly once, and nothing else: no NA is emitted and no neighbour entry is
\* created or updated.
C12_DadCollision ==
    [][(NSStep(last') /\ DadProbe(last'.skb) /\ UnderDad(last'.skb.target)) =>
          /\ calls' = <<Call("addrconf_dad_failure", last'.skb.target, 0, FALSE)>>
          /\ sent' = <<>>
          /\ nd_tbl' = nd_tbl
          /\ proxy_queue' = proxy_queue]_vars

\* such a probe arrived for the optimistic address of a node whose router is
\* in the cache
C12_Witness ==
    /\ NSStep(last) /\ DadProbe(last.skb)
    /\ last.skb.target = OwnGlobal
    /\ net.addrs[OwnGlobal] = Optimistic
    /\ nd_tbl[RouterLL].nud_state = NUD_REACHABLE
    /\ DadFailureCalled(calls)

(***************************************************************************)
(* Neighbour Advertisements.                                               *)
(***************************************************************************)
\* the step that ends was ndisc_rcv handing an NA to ndisc_recv_na
NAStep(l) ==
    /\ l.op = "ndisc_rcv" /\ l.env.linearize_ok
    /\ l.skb.type = NDISC_NEIGHBOUR_ADVERTISEMENT
    /\ l.skb.hop_limit = 255 /\ l.skb.code = 0

\* the link-layer address an option of this type gives the handler: NoLL
\* without the option
OptionLL(skb, type) ==
    LLBytes(skb.opt, OptAddrData(skb, ndisc_parse_options(skb.opt, Len(skb.opt), net.config), type))

\* an option of this type is there and its length is not the one of the interface
BadLLOption(skb, type) ==
    LET r == ndisc_parse_options(skb.opt, Len(skb.opt), net.config)
    IN  r.ok /\ r.opts.arr[type] # NULL /\ OptAddrData(skb, r, type) = NULL

\* the NA passes the checks of the handler and its target is no address of the node
NAValid(skb) ==
    /\ ~skb.short
    /\ ~ipv6_addr_is_multicast(skb.target)
    /\ ~(ipv6_addr_is_multicast(skb.daddr) /\ skb.solicited)
    /\ ndisc_parse_options(skb.opt, Len(skb.opt), net.config).ok
    /\ ~BadLLOption(skb, ND_OPT_TARGET_LL_ADDR)
    /\ ~ipv6_get_ifaddr(skb.target).present

\* the NA is the node's own proxy advertisement coming back
OwnProxyNA(skb) ==
    /\ CarriesOption(skb.opt, 0, ND_OPT_TARGET_LL_ADDR)
    /\ OptionLL(skb, ND_OPT_TARGET_LL_ADDR) = net.dev.dev_addr
    /\ net.devconf_all.forwarding /\ net.devconf_all.proxy_ndp
    /\ pneigh_lookup(skb.target).present

\* C13: a valid NA whose target has a neighbour entry that is not FAILED, and
\* which is not the node's own proxy NA, updates that entry through
\* neigh_update with the target link-layer address of the NA, the new state
\* REACHABLE when the solicited bit is set and STALE otherwise, OVERRIDE iff
\* the override bit is set and ISROUTER iff the router bit is set (with
\* WEAK_OVERRIDE and OVERRIDE_ISROUTER always); a solicited NA with the
\* override bit and a target link-layer address leaves an INCOMPLETE entry
\* REACHABLE with that address.  No other entry changes.
C13_AdvertisementUpdates ==
    [][(/\ NAStep(last') /\ NAValid(last'.skb)
        /\ nd_tbl[last'.skb.target].present
        /\ nd_tbl[last'.skb.target].nud_state # NUD_FAILED
        /\ ~OwnProxyNA(last'.skb)) =>
          LET skb == last'.skb
              t   == skb.target
              ll  == OptionLL(skb, ND_OPT_TARGET_LL_ADDR)
          IN  /\ nd_tbl'[t] = neigh_update(nd_tbl[t], ll,
                                  IF skb.solicited THEN NUD_REACHABLE ELSE NUD_STALE,
                                  {NEIGH_UPDATE_F_WEAK_OVERRIDE, NEIGH_UPDATE_F_OVERRIDE_ISROUTER}
                                    \cup (IF skb.override THEN {NEIGH_UPDATE_F_OVERRIDE} ELSE {})
                                    \cup (IF skb.router THEN {NEIGH_UPDATE_F_ISROUTER} ELSE {}))
              /\ \A a \in NeighKeys \ {t} : nd_tbl'[a] = nd_tbl[a]
              /\ (/\ skb.solicited /\ skb.override /\ ll # NoLL
                  /\ nd_tbl[t].nud_state = NUD_INCOMPLETE) =>
                    /\ nd_tbl'[t].nud_state = NUD_REACHABLE
                    /\ nd_tbl'[t].ha = ll]_vars

\* a solicited NA with the override bit and a target link-layer address has
\* resolved an INCOMPLETE entry
C13_Witness ==
    /\ NAStep(last) /\ NAValid(last.skb)
    /\ last.skb.solicited /\ last.skb.override /\ last.skb.router
    /\ last.skb.opt = OptTLLA(MacA)
    /\ nd_tbl[last.skb.target] = NeighEntry(NUD_REACHABLE, MacA, TRUE)
    /\ refs.taken["neigh"] = 1 /\ refs.taken["rt"] = 0

(***************************************************************************)
(* The neighbour entry of the router that sent an RA.                      *)
(***************************************************************************)
\* an accepted RA with a router lifetime and a source link-layer address option
RouterRA(l) ==
    /\ RAAccepted(l)
    /\ l.skb.rt_lifetime > 0
    /\ CarriesOption(l.skb.opt, 0, ND_OPT_SOURCE_LL_ADDR)

RAUpdateFlags ==
    {NEIGH_UPDATE_F_WEAK_OVERRIDE, NEIGH_UPDATE_F_OVERRIDE,
     NEIGH_UPDATE_F_OVERRIDE_ISROUTER, NEIGH_UPDATE_F_ISROUTER}

\* The statement of C14 as the specification has it: after such an RA the
\* entry of its source exists, is flagged a router and holds the address of
\* the option.
C14_Original ==
    [][(RouterRA(last') /\ last'.env = EnvOk) =>
          LET s == last'.skb.saddr
          IN  /\ nd_tbl'[s].present
              /\ nd_tbl'[s].router
              /\ nd_tbl'[s].ha = OptionLL(last'.skb, ND_OPT_SOURCE_LL_ADDR)]_vars

\* C14: after an accepted RA with a router lifetime > 0 and a source
\* link-layer address option of the length of the interface's addresses,
\* the route and the neighbour entry being obtained, the entry of the source
\* exists and is what neigh_update makes of it with the address of the
\* option, STALE, and override + weak-override + override-isrouter +
\* isrouter.  An entry that is neither NOARP nor PERMANENT is then flagged a
\* router, holds that address and is STALE, or keeps its state if that was
\* valid with the same address; a NOARP or PERMANENT entry keeps its state
\* and address and is flagged a router only by a default route just added.
\* An option of another length leaves the entry as the lookup found or
\* made it.
C14_RouterNeighbour ==
    [][RouterRA(last') =>
          LET skb   == last'.skb
              env   == last'.env
              s     == skb.saddr
              ll    == OptionLL(skb, ND_OPT_SOURCE_LL_ADDR)
              added == DefrtrGate(last') /\ ~rt6[s].present
              got   == (nd_tbl[s].present \/ env.neigh_ok) /\ (added => env.rt_ok)
              e0    == IF nd_tbl[s].present THEN nd_tbl[s] ELSE ndisc_constructor(s)
              e1    == IF added THEN [e0 EXCEPT !.router = TRUE] ELSE e0
              fixed == e1.nud_state \in {NUD_NOARP, NUD_PERMANENT}
          IN  /\ \A a \in NeighKeys \ {s} : nd_tbl'[a] = nd_tbl[a]
              /\ ~got => nd_tbl'[s] = nd_tbl[s]
              /\ (got /\ BadLLOption(skb, ND_OPT_SOURCE_LL_ADDR)) => nd_tbl'[s] = e1
              /\ (got /\ ~BadLLOption(skb, ND_OPT_SOURCE_LL_ADDR)) =>
                    /\ nd_tbl'[s] = neigh_update(e1, ll, NUD_STALE, RAUpdateFlags)
                    /\ nd_tbl'[s].present
                    /\ fixed => nd_tbl'[s] = e1
                    /\ ~fixed =>
                          /\ nd_tbl'[s].router
                          /\ nd_tbl'[s].ha = ll
                          /\ nd_tbl'[s].nud_state =
                                (IF e1.nud_state \in NUD_VALID /\ e1.ha = ll THEN e1.nud_state ELSE NUD_STALE)]_vars

\* an RA with another address than the one in the cache: the entry of the
\* router, REACHABLE before, is STALE with the address of the RA
C14_Witness ==
    /\ RAStep(last) /\ last.env = EnvOk
    /\ last.skb.rt_lifetime > 0
    /\ last.skb.opt = OptSLLA(MacA)
    /\ nd_tbl[last.skb.saddr] = NeighEntry(NUD_STALE, MacA, TRUE)
    /\ rt6[last.skb.saddr].present
    /\ rt6[last.skb.saddr].expires = HZ * last.skb.rt_lifetime
    /\ refs.taken["rt"] = 1 /\ refs.taken["neigh"] = 1

(***************************************************************************)
(* Proxy NDP and the delay queue.                                          *)
(***************************************************************************)
\* the node answers for the address as a proxy: read from the interface
Proxied(t) ==
    /\ ~ipv6_get_ifaddr(t).present /\ net.has_idev
    /\ ~ipv6_chk_acast_addr(t)
    /\ idev.cnf.forwarding
    /\ (net.devconf_all.proxy_ndp \/ idev.cnf.proxy_ndp)
    /\ pneigh_lookup(t).present

\* the NS is one ndisc_recv_ns goes on with: valid, and a DAD probe only if
\* well formed
NSAccepted(skb) ==
    /\ NSValid(skb)
    /\ ~BadLLOption(skb, ND_OPT_SOURCE_LL_ADDR)
    /\ ipv6_addr_any(skb.saddr) => DadProbe(skb)

\* a multicast NS for a proxied address has arrived, the delay being set
ProxyArrival(l) ==
    /\ NSStep(l) /\ NSAccepted(l.skb)
    /\ Proxied(l.skb.target)
    /\ ipv6_addr_is_multicast(l.skb.daddr)
    /\ idev.nd_parms.proxy_delay # 0

\* the proxy timer has handed back an NS for a proxied address
ProxyReplay(l) == l.op = "pndisc_redo" /\ Proxied(l.skb.target)

\* the packet as it sits on the delay queue
Delayed(skb) == [skb EXCEPT !.cb_flags = {LOCALLY_ENQUEUED}]

\* the NA in answer to skb, as the output path gets it
IsAnswer(na, skb, router, solicited, override, daddr, opt) ==
    /\ na.pkt.type = NDISC_NEIGHBOUR_ADVERTISEMENT
    /\ na.pkt.hop_limit = 255 /\ na.pkt.code = 0
    /\ na.pkt.target = skb.target
    /\ na.pkt.daddr = daddr
    /\ na.pkt.router = router
    /\ na.pkt.solicited = solicited
    /\ na.pkt.override = override
    /\ na.pkt.opt = opt

\* the target link-layer address option with the address of the interface
OwnTLLA == IF net.dev.addr_len = 0 THEN <<>> ELSE OptTLLA(net.dev.dev_addr)

\* the sender of the NS has a neighbour entry, or gets one
SenderKnown(tbl, skb, env) ==
    \/ tbl[skb.saddr].present
    \/ /\ env.neigh_ok
       /\ \/ ~ipv6_addr_is_multicast(skb.daddr)
          \/ CarriesOption(skb.opt, 0, ND_OPT_SOURCE_LL_ADDR)
          \/ net.dev.addr_len = 0

\* the output path can be reached: a source address, a buffer and a route
CanSend(env) == env.saddr_ok /\ env.alloc_ok /\ env.dst_ok

\* The statement of C15 as the specification has it: the NS is put on the
\* queue, and its replay emits an NA with router, solicited and override set.
C15_Original ==
    [][/\ (ProxyArrival(last') /\ last'.env = EnvOk /\ last'.skb.pkt_type # PACKET_HOST
              /\ proxy_queue = <<>>) =>
             (sent' = <<>> /\ proxy_queue' = <<Delayed(last'.skb)>>)
       /\ (ProxyReplay(last') /\ last'.env = EnvOk) =>
             /\ Len(sent') = 1
             /\ IsAnswer(sent'[1], last'.skb, TRUE, TRUE, TRUE, sent'[1].pkt.daddr, OwnTLLA)]_vars

\* C15: a multicast NS for a proxied target, not received as a unicast
\* frame, is not answered at once: its clone is put on the delay queue,
\* marked, unless the clone cannot be made or the queue is full.  When the
\* clone is handed back, a solicitation from another source than :: is
\* answered if its sender has or gets a neighbour entry, or the interface
\* has no link-layer header, with an NA to the sender that has solicited=1,
\* override=0 and router = the ROUTER flag of the proxy entry; a probe from
\* :: is answered with an NA to all nodes that has solicited=0, override=0.
\* Both carry the target and the link-layer address of the interface.
C15_ProxyDelay ==
    [][/\ (ProxyArrival(last') /\ last'.skb.pkt_type # PACKET_HOST) =>
             /\ sent' = <<>> /\ nd_tbl' = nd_tbl
             /\ proxy_queue' =
                  (IF last'.env.clone_ok /\ Len(proxy_queue) <= idev.nd_parms.proxy_qlen
                   THEN Append(proxy_queue, Delayed(last'.skb)) ELSE proxy_queue)
       /\ ProxyReplay(last') =>
             LET skb == last'.skb
                 env == last'.env
                 dad == ipv6_addr_any(skb.saddr)
                 answered == dad \/ SenderKnown(nd_tbl, skb, env) \/ ~net.dev.header_ops
             IN  /\ proxy_queue' = Tail(proxy_queue)
                 /\ IF answered /\ CanSend(env)
                    THEN /\ Len(sent') = 1
                         /\ IsAnswer(sent'[1], skb, pneigh_lookup(skb.target).router, ~dad, FALSE,
                                     IF dad THEN in6addr_linklocal_allnodes ELSE skb.saddr, OwnTLLA)
                    ELSE sent' = <<>>]_vars

\* the delayed NS for the proxied address has been answered for a proxy
\* entry that is not flagged a router
C15_Witness ==
    /\ ProxyReplay(last) /\ last.env = EnvOk
    /\ ~pneigh_lookup(last.skb.target).router
    /\ last.skb.saddr = RouterLL
    /\ Len(sent) = 1
    /\ sent[1].pkt.solicited /\ ~sent[1].pkt.override /\ ~sent[1].pkt.router
    /\ sent[1].pkt.opt = OptTLLA(OwnMac)
    /\ nd_tbl[RouterLL].nud_state = NUD_STALE

(***************************************************************************)
(* Link-layer address options of the wrong length.                         *)
(***************************************************************************)
\* the option the handler of this message type reads a link-layer address from
AddressOptionOf(type) ==
    IF type = NDISC_NEIGHBOUR_ADVERTISEMENT THEN ND_OPT_TARGET_LL_ADDR ELSE ND_OPT_SOURCE_LL_ADDR

\* the step that ends was ndisc_rcv of an NS, NA, RS or RA whose address
\* option has not the length of the addresses of the interface
BadLength(l) ==
    /\ l.op = "ndisc_rcv" /\ l.env.linearize_ok
    /\ l.skb.hop_limit = 255 /\ l.skb.code = 0
    /\ l.skb.type \in {NDISC_NEIGHBOUR_SOLICITATION, NDISC_NEIGHBOUR_ADVERTISEMENT,
                       NDISC_ROUTER_SOLICITATION, NDISC_ROUTER_ADVERTISEMENT}
    /\ BadLLOption(l.skb, AddressOptionOf(l.skb.type))

\* every entry of the cache holds an address as long as those of the interface
AddressLengthsKept(tbl) == \A a \in NeighKeys : tbl[a].present => Len(tbl[a].ha) = net.dev.addr_len

\* The statement of C16 as the specification has it: such a packet changes
\* no neighbour entry, no default router and no interface parameter, and is
\* not answered.
C16_Original ==
    [][BadLength(last') =>
          /\ nd_tbl' = nd_tbl /\ rt6' = rt6 /\ idev' = idev
          /\ sent' = <<>>]_vars

\* C16: an NS, NA or RS whose address option has the wrong length is dropped
\* and changes nothing.  An RA whose source link-layer address option has the
\* wrong length is dropped only when the handler comes to the option, with
\* the entry of its source in hand: the entry is not updated and no option is
\* handed on, but the default router, the flags, hop limit and timers of the
\* interface are already set and the entry of the source may have been
\* created.  When that entry is not in the cache and cannot be made, the
\* option is not looked at and the cache stays as it was.  No reply is
\* emitted, and no entry holds an address of another length than the
\* interface's.
C16_BadLengthDropped ==
    [][/\ AddressLengthsKept(nd_tbl')
       /\ BadLength(last') =>
             LET s == last'.skb.saddr
             IN  /\ sent' = <<>> /\ proxy_queue' = proxy_queue
                 /\ last'.skb.type # NDISC_ROUTER_ADVERTISEMENT =>
                       /\ nd_tbl' = nd_tbl /\ rt6' = rt6 /\ idev' = idev
                       /\ calls' = <<>>
                 /\ last'.skb.type = NDISC_ROUTER_ADVERTISEMENT =>
                       /\ \A a \in NeighKeys \ {s} : nd_tbl'[a] = nd_tbl[a] /\ rt6'[a] = rt6[a]
                       /\ nd_tbl[s].present =>
                             nd_tbl'[s] \in {nd_tbl[s], [nd_tbl[s] EXCEPT !.router = TRUE]}
                       /\ ~nd_tbl[s].present =>
                             nd_tbl'[s] \in {NoNeigh, ndisc_constructor(s),
                                             [ndisc_constructor(s) EXCEPT !.router = TRUE]}
                       /\ (nd_tbl[s].present \/ last'.env.neigh_ok) =>
                             /\ idev'.cnf.mtu6 = idev.cnf.mtu6
                             /\ \A i \in 1..Len(calls') : calls'[i].fn = "inet6_ifinfo_notify"
                       /\ ~(nd_tbl[s].present \/ last'.env.neigh_ok) => nd_tbl' = nd_tbl]_vars

\* an RA with a router lifetime and a source link-layer address option two
\* units long: the router is on the list, its entry was made and has no address
C16_Witness ==
    /\ BadLength(last)
    /\ last.skb.type = NDISC_ROUTER_ADVERTISEMENT
    /\ rt6[last.skb.saddr].present
    /\ nd_tbl[last.skb.saddr] = [ndisc_constructor(last.skb.saddr) EXCEPT !.router = TRUE]
    /\ nd_tbl[last.skb.saddr].nud_state = NUD_NONE
    /\ IF_RA_RCVD \in idev.if_flags

\* how often the step freed a packet
Freed(c) == Cardinality({i \in 1..Len(c) : c[i].fn = "kfree_skb"})

\* C17: a packet handed back by the proxy timer still bears the mark of the
\* delay queue, is not put on the queue again, is answered with at most one
\* NA or dropped, and is freed exactly once; an arriving NS puts at most one
\* clone on the queue, and every packet on the queue bears the mark.
C17_ReplayBounded ==
    [][/\ \A i \in 1..Len(proxy_queue') : LOCALLY_ENQUEUED \in proxy_queue'[i].cb_flags
       /\ last'.op = "pndisc_redo" =>
             /\ LOCALLY_ENQUEUED \in last'.skb.cb_flags
             /\ last'.skb = Head(proxy_queue)
             /\ proxy_queue' = Tail(proxy_queue)
             /\ Len(sent') <= 1
             /\ Freed(calls') = 1
       /\ last'.op = "ndisc_rcv" =>
             /\ Freed(calls') = 0
             /\ \/ proxy_queue' = proxy_queue
                \/ proxy_queue' = Append(proxy_queue, Delayed(last'.skb))]_vars

\* a delayed solicitation for the anycast address has been handed back and
\* answered, and the queue is empty again
C17_Witness ==
    /\ last.op = "pndisc_redo"
    /\ last.skb.target = AnycastAddr
    /\ LOCALLY_ENQUEUED \in last.skb.cb_flags
    /\ proxy_queue = <<>>
    /\ Len(sent) = 1
    /\ Freed(calls) = 1

(***************************************************************************)
(* The answer to a solicitation.                                           *)
(***************************************************************************)
\* the address is one of the node's and DAD is over on it
ReadyTarget(t) == ipv6_get_ifaddr(t).present /\ ~UnderDad(t)

\* an NS from another source than :: for a ready address of the interface
SolicitedReady(l) ==
    /\ NSStep(l) /\ NSAccepted(l.skb)
    /\ ~ipv6_addr_any(l.skb.saddr)
    /\ ReadyTarget(l.skb.target)

\* The statement of C18 as the specification has it: every such NS is
\* answered with an NA for the target to the solicitor.
C18_Original ==
    [][(SolicitedReady(last') /\ last'.env = EnvOk) =>
          /\ Len(sent') = 1
          /\ sent'[1].pkt.type = NDISC_NEIGHBOUR_ADVERTISEMENT
          /\ sent'[1].pkt.target = last'.skb.target
          /\ sent'[1].pkt.daddr = last'.skb.saddr]_vars

\* C18: a valid NS from another source than :: for a ready address of the
\* interface is answered with one NA for that target to the solicitor when
\* the solicitor has a neighbour entry or gets one (the NS came by unicast,
\* or carried a source link-layer address, or the interface has no
\* link-layer addresses), or when the interface has no link-layer header;
\* a multicast NS without that option from a solicitor that is not in the
\* cache is not answered.  Nothing is emitted when no buffer or route is had.
C18_ReadyTargetAnswered ==
    [][SolicitedReady(last') =>
          LET skb == last'.skb
              env == last'.env
              answered == SenderKnown(nd_tbl, skb, env) \/ ~net.dev.header_ops
          IN  IF answered /\ env.alloc_ok /\ env.dst_ok
              THEN /\ Len(sent') = 1
                   /\ sent'[1].pkt.type = NDISC_NEIGHBOUR_ADVERTISEMENT
                   /\ sent'[1].pkt.target = skb.target
                   /\ sent'[1].pkt.daddr = skb.saddr
                   /\ sent'[1].pkt.saddr = skb.target
                   /\ sent'[1].pkt.solicited
              ELSE sent' = <<>>]_vars

\* a multicast NS with a source link-layer address from a solicitor that was
\* not in the cache: it is answered, and the solicitor is in the cache
C18_Witness ==
    /\ NSStep(last) /\ last.env = EnvOk
    /\ last.skb = NSBase(RouterLL, SolNode(OwnGlobal), OwnGlobal, OptSLLA(MacA))
    /\ net.addrs[OwnGlobal] = Ready
    /\ Len(sent) = 1
    /\ sent[1].pkt.daddr = RouterLL /\ sent[1].pkt.target = OwnGlobal
    /\ nd_tbl[RouterLL] = NeighEntry(NUD_STALE, MacA, FALSE)
    /\ refs.taken["neigh"] = 1 /\ refs.taken["idev"] = 1

(***************************************************************************)
(* The flags of the advertisement that answers.                            *)
(***************************************************************************)
\* ndisc_recv_ns has answered an NS from another source than ::, as it
\* arrived or as the proxy timer handed it back
SolicitationAnswered(l, out) ==
    /\ l.op \in {"ndisc_rcv", "pndisc_redo"}
    /\ l.skb.type = NDISC_NEIGHBOUR_SOLICITATION
    /\ ~ipv6_addr_any(l.skb.saddr)
    /\ out # <<>>

\* is_router as ndisc_recv_ns has it when it answers for the target
RouterFlagOf(t) == IF Proxied(t) THEN pneigh_lookup(t).router ELSE idev.cnf.forwarding

\* The statement of C19 as the specification has it: the NA is solicited
\* and overrides, whatever the target and the way the NS arrived.
C19_Original ==
    [][SolicitationAnswered(last', sent') =>
          /\ Len(sent') = 1
          /\ sent'[1].pkt.type = NDISC_NEIGHBOUR_ADVERTISEMENT
          /\ sent'[1].pkt.solicited /\ sent'[1].pkt.override
          /\ sent'[1].pkt.router = RouterFlagOf(last'.skb.target)]_vars

\* C19: the NA that answers an NS from another source than :: is solicited;
\* it overrides only if the target is an address of the interface that is
\* not optimistic and the NS arrived by multicast, so never for an anycast
\* or proxied target and never in answer to a unicast NS; its router flag
\* is the ROUTER flag of the proxy entry for a proxied target that is not an
\* anycast address, and the forwarding flag of the interface otherwise.
C19_AnswerFlags ==
    [][SolicitationAnswered(last', sent') =>
          LET skb == last'.skb
              ifp == ipv6_get_ifaddr(skb.target)
          IN  /\ Len(sent') = 1
              /\ sent'[1].pkt.type = NDISC_NEIGHBOUR_ADVERTISEMENT
              /\ sent'[1].pkt.target = skb.target
              /\ sent'[1].pkt.daddr = skb.saddr
              /\ sent'[1].pkt.solicited
              /\ sent'[1].pkt.override = (/\ ifp.present
                                          /\ IFA_F_OPTIMISTIC \notin ifp.flags
                                          /\ ipv6_addr_is_multicast(skb.daddr))
              /\ sent'[1].pkt.router = RouterFlagOf(skb.target)]_vars

\* a unicast NS for a proxied address whose proxy entry is not a router's,
\* on a forwarding interface: the answer is solicited, does not override
\* and has the router flag clear
C19_Witness ==
    /\ last.op = "ndisc_rcv" /\ last.skb.type = NDISC_NEIGHBOUR_SOLICITATION
    /\ last.skb.saddr = RouterLL /\ last.skb.daddr = OwnLL
    /\ last.skb.target = ProxiedAddr /\ Proxied(ProxiedAddr)
    /\ idev.cnf.forwarding /\ ~pneigh_lookup(ProxiedAddr).router
    /\ Len(sent) = 1
    /\ sent[1].pkt.type = NDISC_NEIGHBOUR_ADVERTISEMENT
    /\ sent[1].pkt.solicited /\ ~sent[1].pkt.override /\ ~sent[1].pkt.router

(***************************************************************************)
(* The answer to a probe.                                                  *)
(***************************************************************************)
\* ndisc_recv_ns has answered an NS from ::, as it arrived or as the proxy
\* timer handed it back
ProbeAnswered(l, out) ==
    /\ l.op \in {"ndisc_rcv", "pndisc_redo"}
    /\ l.skb.type = NDISC_NEIGHBOUR_SOLICITATION
    /\ ipv6_addr_any(l.skb.saddr)
    /\ out # <<>>

\* the target is one the node answers a probe for when it handles it
ProbeTarget(t) == ReadyTarget(t) \/ ipv6_chk_acast_addr(t) \/ Proxied(t)

\* The statement of C20 as the specification has it: the NA overrides and
\* carries the option, whatever the target and the interface.
C20_Original ==
    [][ProbeAnswered(last', sent') =>
          /\ Len(sent') = 1
          /\ sent'[1].pkt.type = NDISC_NEIGHBOUR_ADVERTISEMENT
          /\ sent'[1].pkt.daddr = in6addr_linklocal_allnodes
          /\ ~sent'[1].pkt.solicited /\ sent'[1].pkt.override
          /\ sent'[1].pkt.router = RouterFlagOf(last'.skb.target)
          /\ CarriesOption(sent'[1].pkt.opt, 0, ND_OPT_TARGET_LL_ADDR)
          /\ nd_tbl' = nd_tbl]_vars

\* C20: a DAD NS is answered only if it is well formed and its target is a
\* ready address of the interface, an anycast address or a proxied one; the
\* NA goes to the all-nodes address, is not solicited, has router =
\* is_router, overrides only if the target is an address of the interface
\* (not for an anycast or proxied target), carries the target link-layer
\* address option unless the interface has no link-layer address, and no
\* neighbour entry is looked up, created or updated.
C20_ProbeAnswer ==
    [][ProbeAnswered(last', sent') =>
          LET skb == last'.skb
          IN  /\ DadProbe(skb) /\ ProbeTarget(skb.target)
              /\ Len(sent') = 1
              /\ IsAnswer(sent'[1], skb, RouterFlagOf(skb.target), FALSE,
                          ipv6_get_ifaddr(skb.target).present,
                          in6addr_linklocal_allnodes, OwnTLLA)
              /\ nd_tbl' = nd_tbl
              /\ refs'.taken["neigh"] = 0]_vars

\* the proxy timer hands back a probe for a proxied address: the answer to
\* all nodes does not override, and the cache stays empty
C20_Witness ==
    /\ last.op = "pndisc_redo" /\ last.skb.type = NDISC_NEIGHBOUR_SOLICITATION
    /\ ipv6_addr_any(last.skb.saddr)
    /\ last.skb.target = ProxiedAddr /\ Proxied(ProxiedAddr)
    /\ Len(sent) = 1
    /\ sent[1].pkt.type = NDISC_NEIGHBOUR_ADVERTISEMENT
    /\ sent[1].pkt.daddr = in6addr_linklocal_allnodes
    /\ sent[1].pkt.target = ProxiedAddr
    /\ ~sent[1].pkt.solicited /\ ~sent[1].pkt.override
    /\ sent[1].pkt.opt = OptTLLA(net.dev.dev_addr)
    /\ \A a \in NeighKeys : ~nd_tbl[a].present

(***************************************************************************)
(* The option of the advertisement that answers.                           *)
(***************************************************************************)
\* The statement of C21 as the specification has it: the option is there
\* iff the NS arrived by multicast or the target is an address of the
\* interface.
C21_Original ==
    [][SolicitationAnswered(last', sent') =>
          (CarriesOption(sent'[1].pkt.opt, 0, ND_OPT_TARGET_LL_ADDR)
             <=> (\/ ipv6_addr_is_multicast(last'.skb.daddr)
                  \/ ipv6_get_ifaddr(last'.skb.target).present))]_vars

\* C21: the NA that answers an NS from another source than :: carries the
\* target link-layer address option, with the address of the interface,
\* iff the interface has link-layer addresses and either the NS arrived by
\* multicast or the target is an address of the interface and force_tllao
\* is set on it; a unicast NS for a local address is answered without the
\* option when force_tllao is clear.
C21_OptionIncluded ==
    [][SolicitationAnswered(last', sent') =>
          LET skb == last'.skb
              inc_opt == \/ ipv6_addr_is_multicast(skb.daddr)
                         \/ ipv6_get_ifaddr(skb.target).present /\ idev.cnf.force_tllao
          IN  /\ Len(sent') = 1
              /\ sent'[1].pkt.opt = IF inc_opt /\ net.dev.addr_len # 0
                                    THEN OptTLLA(net.dev.dev_addr) ELSE <<>>]_vars

\* a unicast NS for a ready address, force_tllao clear: answered, no option
C21_Witness ==
    /\ last.op = "ndisc_rcv" /\ last.skb.type = NDISC_NEIGHBOUR_SOLICITATION
    /\ last.skb.saddr = RouterLL /\ last.skb.daddr = OwnLL /\ last.skb.target = OwnGlobal
    /\ net.addrs[OwnGlobal] = Ready /\ ~idev.cnf.force_tllao /\ net.dev.addr_len # 0
    /\ Len(sent) = 1
    /\ sent[1].pkt.type = NDISC_NEIGHBOUR_ADVERTISEMENT /\ sent[1].pkt.target = OwnGlobal
    /\ sent[1].pkt.opt = <<>>

(***************************************************************************)
(* An advertisement for an address of the node.                            *)
(***************************************************************************)
\* an NA that passes the checks of the handler and whose target is an
\* address of the receiving interface
OwnAddressNA(l) ==
    /\ NAStep(l)
    /\ ~l.skb.short
    /\ ~ipv6_addr_is_multicast(l.skb.target)
    /\ ~(ipv6_addr_is_multicast(l.skb.daddr) /\ l.skb.solicited)
    /\ ndisc_parse_options(l.skb.opt, Len(l.skb.opt), net.config).ok
    /\ ~BadLLOption(l.skb, ND_OPT_TARGET_LL_ADDR)
    /\ ipv6_get_ifaddr(l.skb.target).present

\* C22: for an NA that passes the checks of ndisc_recv_na and whose target
\* is an address of the receiving interface, addrconf_dad_failure is called
\* (once, for that address) iff the address is tentative and the packet did
\* not arrive as loopback; in every case the neighbour cache and the
\* default-router list are unchanged, nothing is sent, and the reference
\* taken on the address is given up exactly once.
C22_OwnAddressAdvertised ==
    [][OwnAddressNA(last') =>
          LET skb == last'.skb
              ifp == ipv6_get_ifaddr(skb.target)
          IN  /\ calls' = IF IFA_F_TENTATIVE \in ifp.flags /\ skb.pkt_type # PACKET_LOOPBACK
                          THEN <<Call("addrconf_dad_failure", skb.target, 0, FALSE)>>
                          ELSE <<>>
              /\ nd_tbl' = nd_tbl /\ rt6' = rt6 /\ idev' = idev
              /\ sent' = <<>>
              /\ refs'.taken["ifp"] = 1 /\ refs'.held["ifp"] = 0 /\ ~refs'.bad
              /\ refs'.taken["neigh"] = 0]_vars

\* the node's own unsolicited NA for a tentative address comes back on
\* loopback: DAD goes on, the reference is given up
C22_Witness ==
    /\ NAStep(last) /\ last.skb.pkt_type = PACKET_LOOPBACK
    /\ last.skb.target = OwnGlobal
    /\ IFA_F_TENTATIVE \in net.addrs[OwnGlobal].flags
    /\ calls = <<>>
    /\ refs.taken["ifp"] = 1 /\ refs.held["ifp"] = 0

(***************************************************************************)
(* Advertisements that are dropped with the entry in hand.                 *)
(***************************************************************************)
\* a valid NA for a target that has an entry, which is FAILED or which the
\* node's own proxy advertisement is about
DroppedWithEntry(l) ==
    /\ NAStep(l) /\ NAValid(l.skb)
    /\ nd_tbl[l.skb.target].present
    /\ \/ nd_tbl[l.skb.target].nud_state = NUD_FAILED
       \/ OwnProxyNA(l.skb)

\* C23: a valid NA whose target has a neighbour entry that is FAILED, or
\* whose target link-layer address is the address of the receiving
\* interface while the node forwards and proxies the target, leaves the
\* whole cache and the default-router list unchanged, calls and sends
\* nothing, and releases the reference on the entry it looked up.
C23_EntryLeftAlone ==
    [][DroppedWithEntry(last') =>
          /\ nd_tbl' = nd_tbl /\ rt6' = rt6 /\ idev' = idev
          /\ calls' = <<>> /\ sent' = <<>>
          /\ refs'.taken["neigh"] = 1 /\ refs'.held["neigh"] = 0 /\ ~refs'.bad]_vars

\* the node's own proxy NA comes back for a target whose entry is a STALE
\* router with a default route: entry and route are as they were
C23_Witness ==
    /\ NAStep(last) /\ NAValid(last.skb) /\ OwnProxyNA(last.skb)
    /\ last.skb.target = ProxiedAddr /\ ~last.skb.router /\ last.skb.override
    /\ nd_tbl[ProxiedAddr] = NeighEntry(NUD_STALE, MacA, TRUE)
    /\ nd_tbl[RouterLL] = NeighEntry(NUD_REACHABLE, MacB, TRUE) /\ rt6[RouterLL] = Installed
    /\ refs.taken["neigh"] = 1 /\ refs.held["neigh"] = 0

(***************************************************************************)
(* A router that becomes a host.                                           *)
(***************************************************************************)
\* processing the NA has cleared the ROUTER flag of the entry of its target
RouterToHost(t, before, after) ==
    t \in NeighKeys /\ before[t].present /\ before[t].router /\ ~after[t].router

\* C24: when an NA clears the ROUTER flag of the entry of its target, the
\* default-router entry of that neighbour is gone afterwards and no other
\* is; an NA that does not clear the flag removes none.
C24_RouterToHost ==
    [][NAStep(last') =>
          LET t == last'.skb.target
          IN  IF RouterToHost(t, nd_tbl, nd_tbl')
              THEN /\ ~rt6'[t].present
                   /\ \A a \in NeighKeys \ {t} : rt6'[a] = rt6[a]
              ELSE rt6' = rt6]_vars

(***************************************************************************)
(* Advertisements about a neighbour the cache does not know.               *)
(***************************************************************************)
\* ndisc_rcv was handed an NA whose target has no neighbour entry
UnknownTargetNA(l) ==
    /\ l.op = "ndisc_rcv"
    /\ l.skb.type = NDISC_NEIGHBOUR_ADVERTISEMENT
    /\ ~neigh_lookup(Begin, l.skb.target).present

\* C25: an NA whose target has no neighbour entry leaves the neighbour
\* cache and the default-router list as they were, whatever its flags and
\* options: no entry is created.
C25_NoEntryCreated ==
    [][UnknownTargetNA(last') =>
          /\ nd_tbl' = nd_tbl /\ rt6' = rt6
          /\ refs'.taken["neigh"] = 0]_vars

\* a solicited NA with the override bit and a target link-layer address, for
\* a neighbour that is not in the cache: it still is not
C25_Witness ==
    /\ NAStep(last) /\ NAValid(last.skb) /\ last.env = EnvOk
    /\ last.skb.target = RouterLL
    /\ last.skb.solicited /\ last.skb.override /\ last.skb.router
    /\ CarriesOption(last.skb.opt, 0, ND_OPT_TARGET_LL_ADDR)
    /\ \A a \in NeighKeys : ~nd_tbl[a].present /\ ~rt6[a].present
    /\ net.has_idev /\ net.dev.addr_len # 0

(***************************************************************************)
(* Router Solicitations.                                                   *)
(***************************************************************************)
\* the step that ends was ndisc_rcv handing an RS to ndisc_recv_rs
RSStep(l) ==
    /\ l.op = "ndisc_rcv" /\ l.env.linearize_ok
    /\ l.skb.type = NDISC_ROUTER_SOLICITATION
    /\ l.skb.hop_limit = 255 /\ l.skb.code = 0

\* the RS is one ndisc_recv_rs looks its sender up for
RSAccepted(skb) ==
    /\ ~skb.short /\ net.has_idev
    /\ idev.cnf.forwarding
    /\ ~ipv6_addr_any(skb.saddr)
    /\ ndisc_parse_options(skb.opt, Len(skb.opt), net.config).ok
    /\ ~BadLLOption(skb, ND_OPT_SOURCE_LL_ADDR)

RSUpdateFlags == {NEIGH_UPDATE_F_WEAK_OVERRIDE, NEIGH_UPDATE_F_OVERRIDE, NEIGH_UPDATE_F_OVERRIDE_ISROUTER}

\* The statement of C26 as the specification has it: without a source
\* link-layer address option the cache is as it was, and with one the
\* sender's entry is STALE afterwards.
C26_Original ==
    [][RSStep(last') =>
          LET skb == last'.skb
          IN  /\ sent' = <<>>
              /\ IF RSAccepted(skb) /\ CarriesOption(skb.opt, 0, ND_OPT_SOURCE_LL_ADDR)
                 THEN last'.env = EnvOk =>
                        /\ nd_tbl'[skb.saddr].present
                        /\ nd_tbl'[skb.saddr].nud_state = NUD_STALE
                 ELSE nd_tbl' = nd_tbl]_vars

\* C26: an RS changes the neighbour cache only on a forwarding interface,
\* from another source than ::, with options that parse and no source
\* link-layer address option of a wrong length.  Then the sender's entry is
\* created if there is none, with or without the option, and neigh_update is
\* called on it with the address of the option (none without it), NUD_STALE
\* and WEAK_OVERRIDE, OVERRIDE and OVERRIDE_ISROUTER: a new entry without the
\* option stays without state, an entry given a new address becomes STALE
\* with it, an entry whose address does not change keeps its state and loses
\* the ROUTER flag.  In every other case the cache is unchanged.  An RS
\* changes no route and sends nothing.
C26_SolicitationUpserts ==
    [][RSStep(last') =>
          LET skb == last'.skb
              s   == skb.saddr
              ll  == OptionLL(skb, ND_OPT_SOURCE_LL_ADDR)
              old == IF nd_tbl[s].present THEN nd_tbl[s] ELSE ndisc_constructor(s)
          IN  /\ sent' = <<>> /\ rt6' = rt6 /\ idev' = idev
              /\ IF RSAccepted(skb) /\ (nd_tbl[s].present \/ last'.env.neigh_ok)
                 THEN /\ nd_tbl'[s] = neigh_update(old, ll, NUD_STALE, RSUpdateFlags)
                      /\ \A a \in NeighKeys \ {s} : nd_tbl'[a] = nd_tbl[a]
                      /\ nd_tbl'[s].present
                      /\ (~nd_tbl[s].present /\ ll = NoLL) => nd_tbl'[s] = ndisc_constructor(s)
                      /\ (ll # NoLL /\ old.nud_state \notin {NUD_NOARP, NUD_PERMANENT}
                            /\ (old.nud_state \notin NUD_VALID \/ old.ha # ll)) =>
                              /\ nd_tbl'[s].nud_state = NUD_STALE /\ nd_tbl'[s].ha = ll
                      /\ (old.nud_state \in NUD_VALID \ {NUD_NOARP, NUD_PERMANENT}
                            /\ (ll = NoLL \/ old.ha = ll)) =>
                              nd_tbl'[s] = [old EXCEPT !.router = FALSE]
                      /\ refs'.taken["neigh"] = 1 /\ refs'.held["neigh"] = 0
                 ELSE nd_tbl' = nd_tbl]_vars

\* an RS without the option from a neighbour that was not in the cache, on a
\* forwarding interface: an entry without state and address is there
C26_Witness ==
    /\ RSStep(last) /\ last.env = EnvOk
    /\ last.skb = RSBase(NodeLL, <<>>)
    /\ idev.cnf.forwarding /\ net.dev.addr_len # 0
    /\ nd_tbl[NodeLL] = [present |-> TRUE, nud_state |-> NUD_NONE, ha |-> ZeroLL(net.dev), router |-> FALSE]
    /\ refs.taken["neigh"] = 1 /\ refs.held["neigh"] = 0

(***************************************************************************)
(* The hop limit a Router Advertisement sets.                              *)
(***************************************************************************)
\* the handler gets past the default router of the source: read before the step
DefrtrDone(l) ==
    LET s   == l.skb.saddr
        had == rt6[s].present
        found == nd_tbl[s].present \/ l.env.neigh_ok
    IN  /\ RAAccepted(l) /\ DefrtrGate(l)
        /\ had => found
        /\ (~had /\ l.skb.rt_lifetime # 0) => (l.env.rt_ok /\ found)

\* The statement of C27 as the specification has it: every accepted RA with
\* a hop limit that is not zero sets it, whatever accept_ra_defrtr is.
C27_Original ==
    [][(RAAccepted(last') /\ last'.env = EnvOk) =>
          IF last'.skb.ra_hop_limit # 0
          THEN idev'.cnf.hop_limit = last'.skb.ra_hop_limit
          ELSE idev'.cnf.hop_limit = idev.cnf.hop_limit]_vars

\* C27: an accepted RA sets the hop limit of the interface to its hop-limit
\* field, and the hop-limit metric of the default route of its source when
\* there is one afterwards, iff the field is not zero and the handler gets
\* to the end of the default-router block: accept_ra_defrtr is set, the
\* name of the interface does not begin with "cc", the source is not an
\* address of the node, and the route and the neighbour entry of the source
\* were obtained.  The router lifetime plays no part.  In every other case
\* the hop limit and the metrics are as they were.
C27_HopLimit ==
    [][RAStep(last') =>
          LET skb == last'.skb
              s   == skb.saddr
          IN  IF DefrtrDone(last') /\ skb.ra_hop_limit # 0
              THEN /\ idev'.cnf.hop_limit = skb.ra_hop_limit
                   /\ rt6'[s].present <=> skb.rt_lifetime # 0
                   /\ rt6'[s].present => rt6'[s].hoplimit = skb.ra_hop_limit
                   /\ \A a \in NeighKeys \ {s} : rt6'[a] = rt6[a]
              ELSE /\ idev'.cnf.hop_limit = idev.cnf.hop_limit
                   /\ \A a \in NeighKeys : rt6'[a].hoplimit = rt6[a].hoplimit \/ ~rt6'[a].present]_vars

\* an RA with router lifetime 0 and hop limit 32, the source not being a
\* default router: the interface has hop limit 32 and there is no route
C27_Witness ==
    /\ RAStep(last) /\ last.env = EnvOk
    /\ last.skb.rt_lifetime = 0 /\ last.skb.ra_hop_limit = 32
    /\ jiffies = 1
    /\ idev.cnf.hop_limit = 32
    /\ ~rt6[last.skb.saddr].present

(***************************************************************************)
(* The MTU a Router Advertisement sets.                                    *)
(***************************************************************************)
\* the handler gets to the options of the RA: it is accepted, it was not left
\* in the default-router block, and it was not dropped for a source
\* link-layer address option of a wrong length, which is looked at only
\* with the neighbour entry of the source in hand
RAReachesOptions(l) ==
    /\ RAAccepted(l)
    /\ DefrtrGate(l) => DefrtrDone(l)
    /\ ~(/\ BadLLOption(l.skb, ND_OPT_SOURCE_LL_ADDR)
         /\ (nd_tbl[l.skb.saddr].present \/ l.env.neigh_ok))

\* the first MTU option of the RA, NULL without one
MtuOption(skb) == ndisc_parse_options(skb.opt, Len(skb.opt), net.config).opts.arr[ND_OPT_MTU]

\* its 32-bit value in two halves
AdvertisedMtu(skb) ==
    LET p == MtuOption(skb)
    IN  [hi |-> ByteAt(skb.opt, p + 4) * 256 + ByteAt(skb.opt, p + 5),
         lo |-> ByteAt(skb.opt, p + 6) * 256 + ByteAt(skb.opt, p + 7)]

\* what rt6_mtu_change was called with
MtuChanges(c) == SelectSeq(c, LAMBDA x : x.fn = "rt6_mtu_change")

\* C28: an RA that is accepted and gets to its options, with an MTU option
\* of value m, sets mtu6 to m and calls rt6_mtu_change once with m when
\* 1280 <= m <= the MTU of the device and m is not the stored mtu6; for
\* every other m (below 1280, above the device MTU up to 2^32 - 1, or the
\* stored value), and for an RA without the option or one that does not
\* get to it, mtu6 is as it was and rt6_mtu_change is not called.
C28_MtuOption ==
    [][RAStep(last') =>
          LET skb == last'.skb
              m   == AdvertisedMtu(skb)
              takes == /\ RAReachesOptions(last')
                       /\ MtuOption(skb) # NULL
                       /\ m.hi = 0 /\ m.lo >= IPV6_MIN_MTU /\ m.lo <= net.dev.mtu
                       /\ m.lo # idev.cnf.mtu6
          IN  IF takes
              THEN /\ idev'.cnf.mtu6 = m.lo
                   /\ MtuChanges(calls') = <<Call("rt6_mtu_change", skb.saddr, m.lo, FALSE)>>
              ELSE /\ idev'.cnf.mtu6 = idev.cnf.mtu6
                   /\ MtuChanges(calls') = <<>>]_vars

\* after an RA that set the MTU to 1400, one with the minimum, 1280, sets it again
C28_Witness ==
    /\ RAStep(last) /\ last.env = EnvOk
    /\ jiffies = 2
    /\ MtuOption(last.skb) # NULL
    /\ AdvertisedMtu(last.skb) = [hi |-> 0, lo |-> IPV6_MIN_MTU]
    /\ idev.cnf.mtu6 = IPV6_MIN_MTU
    /\ MtuChanges(calls) = <<Call("rt6_mtu_change", last.skb.saddr, IPV6_MIN_MTU, FALSE)>>
    /\ rt6[last.skb.saddr].mtu = IPV6_MIN_MTU

(***************************************************************************)
(* The prefix and user options a Router Advertisement hands on.            *)
(***************************************************************************)
\* the offsets of the options of these types, in the order of the wire
RECURSIVE WireOptions(_, _, _)
WireOptions(opt, at, types) ==
    IF at + 2 > Len(opt) \/ ByteAt(opt, at + 1) = 0 THEN <<>>
    ELSE (IF ByteAt(opt, at) \in types THEN <<at>> ELSE <<>>)
         \o WireOptions(opt, at + 8 * ByteAt(opt, at + 1), types)

\* the calls of a collaborator, in the order they were made
CallsOf(c, fn) == SelectSeq(c, LAMBDA x : x.fn = fn)

\* C29: an RA that is accepted and gets to its options has
\* addrconf_prefix_rcv called once for each prefix information option, in
\* the order of the wire, with whether the RA has a source link-layer
\* address option, when accept_ra_pinfo is set and not at all when it is
\* clear; ndisc_ra_useropt is called once for each RDNSS or DNSSL option,
\* in the order of the wire; whatever options lie between them.
C29_OptionIteration ==
    [][(RAStep(last') /\ RAReachesOptions(last')) =>
          LET skb == last'.skb
              pis == WireOptions(skb.opt, 0, {ND_OPT_PREFIX_INFO})
              us  == WireOptions(skb.opt, 0, {ND_OPT_RDNSS, ND_OPT_DNSSL})
              sllao == CarriesOption(skb.opt, 0, ND_OPT_SOURCE_LL_ADDR)
          IN  /\ CallsOf(calls', "addrconf_prefix_rcv") =
                    IF idev.cnf.accept_ra_pinfo
                    THEN [i \in 1..Len(pis) |-> Call("addrconf_prefix_rcv", skb.saddr, pis[i], sllao)]
                    ELSE <<>>
              /\ CallsOf(calls', "ndisc_ra_useropt") =
                    [i \in 1..Len(us) |-> Call("ndisc_ra_useropt", skb.saddr, us[i], FALSE)]]_vars

\* an RA with three prefix options, an MTU, an RDNSS and a route option
\* between them and the source link-layer address option last: three
\* calls with the flag set, then one for the RDNSS option
C29_Witness ==
    /\ RAStep(last) /\ last.env = EnvOk
    /\ WireOptions(last.skb.opt, 0, {ND_OPT_PREFIX_INFO}) = <<0, 40, 112>>
    /\ WireOptions(last.skb.opt, 0, {ND_OPT_RDNSS, ND_OPT_DNSSL}) = <<72>>
    /\ CallsOf(calls, "addrconf_prefix_rcv") =
          [i \in 1..3 |-> Call("addrconf_prefix_rcv", last.skb.saddr, <<0, 40, 112>>[i], TRUE)]
    /\ CallsOf(calls, "ndisc_ra_useropt") = <<Call("ndisc_ra_useropt", last.skb.saddr, 72, FALSE)>>

(***************************************************************************)
(* The conversion of the advertised timers to ticks.                       *)
(***************************************************************************)
\* floor(ms * HZ / 1000) of a 32-bit ms in two halves, without wrap-around
ExactTicks(ms) ==
    LET a == ms.hi * HZ
        b == ms.lo * HZ
    IN  (a \div 1000) * 65536 + ((a % 1000) * 65536 + b) \div 1000

\* the tick count the specification asks for
ClampedTicks(ms) == IF ExactTicks(ms) < HZ \div 10 THEN HZ \div 10 ELSE ExactTicks(ms)

\* C30, as the specification has it: whenever an advertised retrans_timer
\* or reachable_time is applied (it is not zero and below the bound of the
\* handler), the stored tick count is max(floor(ms * HZ / 1000), HZ / 10),
\* the product ms * HZ being computed without wrap-around.
C30_NoWrap ==
    [][(RAStep(last') /\ RAAccepted(last') /\ (DefrtrGate(last') => DefrtrDone(last'))) =>
          LET skb == last'.skb
              rt  == skb.retrans_timer
              re  == skb.reachable_time
          IN  /\ (~u32_is_zero(rt) /\ u32_div1000(rt) < MAX_SCHEDULE_TIMEOUT \div HZ) =>
                     idev'.nd_parms.retrans_time = ClampedTicks(rt)
              /\ (~u32_is_zero(re) /\ u32_div1000(re) < MAX_SCHEDULE_TIMEOUT \div (3 * HZ)) =>
                     idev'.nd_parms.base_reachable_time = ClampedTicks(re)]_vars

(***************************************************************************)
(* The default router on cellular interfaces.                              *)
(***************************************************************************)
\* C31, as the specification has it: an RA clears accept_ra_defrtr only on
\* an interface whose name begins with "ccmni"; on an interface of any
\* other name it leaves accept_ra_defrtr as it was.
C31_OnlyCcmni ==
    [][RAStep(last') =>
          (strncmp_eq(net.dev.name, ccmni, 5) \/ idev'.cnf.accept_ra_defrtr = idev.cnf.accept_ra_defrtr)]_vars

(***************************************************************************)
(* The probes of ndisc_solicit.                                            *)
(***************************************************************************)
SolicitStep(l) == l.op = "ndisc_solicit"

\* the Neighbour Solicitations among the packets handed to the output path
SolicitationsIn(s) == SelectSeq(s, LAMBDA x : x.pkt.type = NDISC_NEIGHBOUR_SOLICITATION)

\* the link-local addresses of the interface, in whatever state
LinkLocalsOf(n) == {a \in DOMAIN n.addrs : a.k = "ll" /\ n.addrs[a].present}
\* those that are neither tentative nor optimistic
ReadyLinkLocalsOf(n) ==
    {a \in LinkLocalsOf(n) : n.addrs[a].flags \cap {IFA_F_TENTATIVE, IFA_F_OPTIMISTIC} = {}}

\* where the probe with this count goes: NoAddr for the window of the
\* user-space resolver
ProbeDest(l) ==
    IF l.probes < idev.nd_parms.ucast_probes THEN l.target
    ELSE IF l.probes < idev.nd_parms.ucast_probes + idev.nd_parms.app_probes THEN NoAddr
    ELSE addrconf_addr_solict_mult(l.target)

\* The statement of C32 as the specification has it: the source is the
\* source of the waiting packet iff that is an address of the interface,
\* else a link-local address of the interface, and no NS is sent only when
\* the interface has none.
C32_Original ==
    [][(SolicitStep(last') /\ last'.env = EnvOk /\ ProbeDest(last') # NoAddr) =>
          LET l  == last'
              ns == SolicitationsIn(sent')
              own == l.skb.present /\ l.skb.saddr \in DOMAIN net.addrs /\ net.addrs[l.skb.saddr].present
          IN  IF own THEN Len(ns) = 1 /\ ns[1].pkt.saddr = l.skb.saddr
              ELSE IF LinkLocalsOf(net) # {} THEN Len(ns) = 1 /\ ns[1].pkt.saddr \in LinkLocalsOf(net)
              ELSE ns = <<>>]_vars

\* C32: an invocation of ndisc_solicit with probe count p hands at most one
\* packet to the output path, a Neighbour Solicitation for the target.  No
\* packet is sent when ucast_probes <= p < ucast_probes + app_probes, when
\* no source is found, when the allocation fails or when no route is got.
\* Otherwise there is exactly one, to the target when p < ucast_probes and
\* to the solicited-node address of the target else.  Its source is the
\* source of the waiting packet when that is an address of the interface
\* that is not tentative; else it is a link-local address of the interface
\* that is neither tentative nor optimistic, and without one nothing is sent.
C32_ProbeChoice ==
    [][SolicitStep(last') =>
          LET l  == last'
              ns == SolicitationsIn(sent')
              own == l.skb.present /\ ipv6_chk_addr(l.skb.saddr)
              lls == ReadyLinkLocalsOf(net)
              goes == /\ ProbeDest(l) # NoAddr
                      /\ own \/ lls # {}
                      /\ l.env.alloc_ok /\ l.env.dst_ok
          IN  /\ Len(sent') = Len(ns)
              /\ IF goes
                 THEN /\ Len(ns) = 1
                      /\ ns[1].pkt.target = l.target
                      /\ ns[1].pkt.daddr = ProbeDest(l)
                      /\ IF own THEN ns[1].pkt.saddr = l.skb.saddr ELSE ns[1].pkt.saddr \in lls
                 ELSE ns = <<>>]_vars

\* the fourth probe, the first after the three unicast ones, for a packet
\* from elsewhere: one NS from the link-local address to the solicited-node
\* address of the target
C32_Witness ==
    /\ SolicitStep(last) /\ last.env = EnvOk
    /\ last.probes = 3 /\ idev.nd_parms.ucast_probes = 3 /\ idev.nd_parms.app_probes = 0
    /\ last.skb.present /\ last.skb.saddr = OtherAddr
    /\ Len(sent) = 1
    /\ sent[1].pkt.type = NDISC_NEIGHBOUR_SOLICITATION
    /\ sent[1].pkt.daddr = addrconf_addr_solict_mult(last.target)
    /\ sent[1].pkt.saddr = OwnLL

(***************************************************************************)
(* The entries ndisc_constructor makes.                                    *)
(***************************************************************************)
ConstructorStep(l) == l.op = "ndisc_constructor"

DirectOps(n) == n.ops = "ndisc_direct_ops" /\ n.output = "neigh_direct_output"
\* the generic operations, or the header-caching ones where the interface
\* has a cache hook
ResolvingOps(n, dev) == n.ops = (IF dev.hh_cache THEN "ndisc_hh_ops" ELSE "ndisc_generic_ops")

\* The decision table of C33 as the specification has it: the multicast
\* address comes first and gets the direct operations.
C33_Original ==
    [][ConstructorStep(last') =>
          LET a   == last'.addr
              dev == net.dev
              n   == nd_tbl'[a]
          IN  IF ~net.has_idev THEN ~n.present
              ELSE IF ipv6_addr_is_multicast(a)
              THEN n.nud_state = NUD_NOARP /\ n.ha = ndisc_mc_map(a, dev) /\ DirectOps(n)
              ELSE IF ~dev.header_ops THEN n.nud_state = NUD_NOARP /\ DirectOps(n)
              ELSE IF dev.flags \cap {"IFF_NOARP", "IFF_LOOPBACK"} # {}
              THEN /\ n.nud_state = NUD_NOARP /\ n.ha = dev.dev_addr
                   /\ "IFF_LOOPBACK" \in dev.flags => n.type = RTN_LOCAL
              ELSE IF "IFF_POINTOPOINT" \in dev.flags
              THEN n.nud_state = NUD_NOARP /\ n.ha = dev.broadcast
              ELSE n.nud_state = NUD_NONE /\ ResolvingOps(n, dev)]_vars

\* C33: ndisc_constructor fails with -EINVAL, and no entry is made, when
\* the interface has no IPv6 configuration.  Otherwise it returns 0 and the
\* entry has the neighbour parameters of the interface and the type
\* MULTICAST for a multicast address, UNICAST else.  On an interface
\* without header operations the state is NOARP, the operations and the
\* output are the direct ones and the link-layer address is not filled in,
\* for a multicast address too.  On an interface with header operations
\* the operations are the header-caching ones when the interface has a
\* cache hook and the generic ones else, in every case; a multicast
\* address gets NOARP and the address of the multicast map; another
\* address on a NOARP or loopback interface gets NOARP and the address of
\* the interface (and the type LOCAL on a loopback); another address on a
\* point-to-point interface gets NOARP and the broadcast address; in the
\* remaining case the state is left initial.  The output is the connected
\* output of the operations when the state is NOARP and the resolving
\* output else.
C33_DecisionTable ==
    [][ConstructorStep(last') =>
          LET a   == last'.addr
              dev == net.dev
              n   == nd_tbl'[a]
              mc  == ipv6_addr_is_multicast(a)
              own == dev.flags \cap {"IFF_NOARP", "IFF_LOOPBACK"} # {}
              ptp == "IFF_POINTOPOINT" \in dev.flags
          IN  /\ \A b \in ConstructorKeys \ {a} : nd_tbl'[b] = nd_tbl[b]
              /\ ~net.has_idev => last'.ret = -EINVAL /\ n = NoNeigh
              /\ net.has_idev =>
                    /\ last'.ret = 0 /\ n.present /\ n.parms = idev.nd_parms
                    /\ IF dev.header_ops
                       THEN /\ ResolvingOps(n, dev)
                            /\ n.nud_state = (IF mc \/ own \/ ptp THEN NUD_NOARP ELSE NUD_NONE)
                            /\ n.ha = (IF mc THEN ndisc_mc_map(a, dev)
                                       ELSE IF own THEN dev.dev_addr
                                       ELSE IF ptp THEN dev.broadcast ELSE ZeroLL(dev))
                            /\ n.type = (IF mc THEN RTN_MULTICAST
                                         ELSE IF "IFF_LOOPBACK" \in dev.flags THEN RTN_LOCAL ELSE RTN_UNICAST)
                            /\ n.output = (IF n.nud_state = NUD_NOARP
                                           THEN (IF dev.hh_cache THEN "neigh_resolve_output"
                                                 ELSE "neigh_connected_output")
                                           ELSE "neigh_resolve_output")
                       ELSE /\ DirectOps(n)
                            /\ n.nud_state = NUD_NOARP
                            /\ n.ha = ZeroLL(dev)
                            /\ n.type = (IF mc THEN RTN_MULTICAST ELSE RTN_UNICAST)]_vars

\* the entry of a solicited-node address on an Ethernet interface with a
\* header cache: NOARP, the mapped address, the header-caching operations
C33_Witness ==
    /\ ConstructorStep(last) /\ last.ret = 0
    /\ last.addr = SolNode(RouterLL)
    /\ net.dev.type = ARPHRD_ETHER /\ net.dev.header_ops /\ net.dev.hh_cache
    /\ nd_tbl[last.addr].nud_state = NUD_NOARP
    /\ nd_tbl[last.addr].ha = <<51, 51, 255, 0, 0, 1>>
    /\ nd_tbl[last.addr].ops = "ndisc_hh_ops"
    /\ nd_tbl[last.addr].output = "neigh_resolve_output"

(***************************************************************************)
(* The size of a Redirect.                                                 *)
(***************************************************************************)
RedirectStep(l) == l.op = "ndisc_send_redirect"

\* the room the target link-layer address option takes in the options of
\* a Redirect, 0 without one
TargetOptionLen(opt) == IF opt # <<>> /\ opt[1] = ND_OPT_TARGET_LL_ADDR THEN 8 * opt[2] ELSE 0

\* C34: every Redirect ndisc_send_redirect hands to the output path is at
\* most IPV6_MIN_MTU bytes long, IPv6 header, Redirect message, target
\* link-layer address option and redirected header option together, and
\* its payload length says so; the redirected header option is there, its
\* length rd_len is a multiple of 8 that is not zero and stands in its
\* length byte, it holds the first rd_len - 8 bytes of the packet that is
\* forwarded and no more than that packet has, and rd_len is the largest
\* multiple of 8 with these properties.
C34_RedirectFits ==
    [][RedirectStep(last') =>
          /\ Len(sent') <= 1
          /\ \A i \in 1..Len(sent') :
                LET pkt  == sent'[i].pkt
                    data == last'.skb.data
                    tlen == TargetOptionLen(pkt.opt)
                    rd   == Len(pkt.opt) - tlen
                    room == IPV6_MIN_MTU - sizeof_ipv6hdr - sizeof_rd_msg - tlen
                IN  /\ pkt.type = NDISC_REDIRECT
                    /\ tlen \in {0, ndisc_opt_addr_space(net.dev)}
                    /\ sizeof_ipv6hdr + sizeof_rd_msg + Len(pkt.opt) <= IPV6_MIN_MTU
                    /\ pkt.payload_len = sizeof_rd_msg + Len(pkt.opt)
                    /\ rd > 0 /\ rd % 8 = 0
                    /\ pkt.opt[tlen + 1] = ND_OPT_REDIRECT_HDR
                    /\ pkt.opt[tlen + 2] * 8 = rd
                    /\ rd - 8 <= Len(data)
                    /\ SubSeq(pkt.opt, tlen + 9, Len(pkt.opt)) = SubSeq(data, 1, rd - 8)
                    /\ rd + 8 > room \/ rd + 8 > Len(data) + 8]_vars

\* a packet of 1500 bytes forwarded to a neighbour whose address is known:
\* the Redirect is 1280 bytes long, 8 of them the target link-layer address
\* option and 1192 the redirected header option
C34_Witness ==
    /\ RedirectStep(last) /\ last.env = EnvOk
    /\ Len(last.skb.data) = 1500
    /\ net.dev.addr_len = 6
    /\ Len(sent) = 1
    /\ TargetOptionLen(sent[1].pkt.opt) = 8
    /\ sizeof_ipv6hdr + sizeof_rd_msg + Len(sent[1].pkt.opt) = IPV6_MIN_MTU
    /\ sent[1].pkt.opt[10] * 8 = 1192

(***************************************************************************)
(* The counters of ndisc_send_skb.                                         *)
(***************************************************************************)
\* how often IPSTATS_MIB_OUT, and ICMP6_MIB_OUTMSGS with the counter of
\* the message type, moved in the step
MibOut(s) == Len(SelectSeq(s, LAMBDA x : x.mib_out))
MibOutMsgs(s) == Len(SelectSeq(s, LAMBDA x : x.mib_outmsgs))

\* ndisc_solicit got as far as ndisc_send_skb with a packet
ProbeBuilt(l) ==
    /\ SolicitStep(l)
    /\ ProbeDest(l) # NoAddr
    /\ (l.skb.present /\ ipv6_chk_addr(l.skb.saddr)) \/ ReadyLinkLocalsOf(net) # {}
    /\ l.env.alloc_ok

\* The statement of C35 as the specification has it: none of the counters
\* moves for a packet the output hook rejects.
C35_Original ==
    [][SolicitStep(last') =>
          \A i \in 1..Len(sent') : sent'[i].nf_err => (~sent'[i].mib_out /\ ~sent'[i].mib_outmsgs)]_vars

\* C35: when ndisc_send_skb gets no route for the packet, none of the
\* counters moves.  Otherwise IPSTATS_MIB_OUT moves once, before the packet
\* goes to the output hook and whatever the hook returns; ICMP6_MIB_OUTMSGS
\* and the counter of the message type move once when the hook returns 0
\* and not at all when it returns an error.
C35_OutputCounters ==
    [][SolicitStep(last') =>
          IF ProbeBuilt(last') /\ last'.env.dst_ok
          THEN /\ MibOut(sent') = 1
               /\ MibOutMsgs(sent') = (IF last'.env.nf_ok THEN 1 ELSE 0)
          ELSE MibOut(sent') = 0 /\ MibOutMsgs(sent') = 0]_vars

\* a probe the output hook rejects: the IP counter has moved, the ICMPv6
\* counters have not
C35_Witness ==
    /\ SolicitStep(last) /\ ~last.env.nf_ok
    /\ Len(sent) = 1 /\ sent[1].nf_err
    /\ MibOut(sent) = 1 /\ MibOutMsgs(sent) = 0

(***************************************************************************)
(* Device events.                                                          *)
(***************************************************************************)
NetdevStep(l) == l.op = "ndisc_netdev_event"

\* the addresses of the interface, in whatever state
AddressesOf(n) == {a \in DOMAIN n.addrs : n.addrs[a].present}

\* the calls of the collaborators, by name
CallNames(c) == [i \in 1..Len(c) |-> c[i].fn]

\* an unsolicited NA for the address a as the specification describes it
UnsolicitedFor(p, a) ==
    /\ p.type = NDISC_NEIGHBOUR_ADVERTISEMENT
    /\ p.daddr = in6addr_linklocal_allnodes /\ p.saddr = a /\ p.target = a
    /\ p.hop_limit = 255
    /\ ~p.solicited
    /\ p.router = idev.cnf.forwarding

\* The statement of C36 as the specification has it: every unsolicited NA
\* has the override flag and the target link-layer address option.
C36_Original ==
    [][(NetdevStep(last') /\ last'.env = EnvOk /\ last'.event = NETDEV_NOTIFY_PEERS) =>
          /\ Len(sent') = Cardinality(AddressesOf(net))
          /\ \A a \in AddressesOf(net) :
                \E i \in 1..Len(sent') :
                    /\ UnsolicitedFor(sent'[i].pkt, a)
                    /\ sent'[i].pkt.override
                    /\ CarriesOption(sent'[i].pkt.opt, 0, ND_OPT_TARGET_LL_ADDR)]_vars

\* C36: NETDEV_DOWN calls neigh_ifdown and then fib6_run_gc, after which the
\* cache has no entry, and sends nothing.  NETDEV_CHANGEADDR calls
\* neigh_changeaddr and then fib6_run_gc, after which the cache has no
\* entry, and then sends the unsolicited NAs iff the interface has an IPv6
\* configuration with ndisc_notify set.  NETDEV_NOTIFY_PEERS sends them
\* whatever ndisc_notify is, calls nothing and leaves the cache as it is.
\* Any other event calls nothing, sends nothing and leaves the cache as it
\* is.  The unsolicited NAs are one for every address of the interface,
\* tentative ones included, from that address to the all-nodes address,
\* not solicited, router = forwarding, override set unless the address is
\* optimistic, and with the target link-layer address option unless the
\* interface has no link-layer address; none of them is sent when the
\* allocation fails or no route is got.  No event changes the
\* configuration of the interface or the default routers.
C36_DeviceEvents ==
    [][NetdevStep(last') =>
          LET ev   == last'.event
              env  == last'.env
              adv  == /\ net.has_idev
                      /\ \/ ev = NETDEV_NOTIFY_PEERS
                         \/ ev = NETDEV_CHANGEADDR /\ idev.cnf.ndisc_notify
              as   == IF adv /\ env.alloc_ok /\ env.dst_ok THEN AddressesOf(net) ELSE {}
          IN  /\ idev' = idev /\ rt6' = rt6
              /\ CallNames(calls') =
                    (IF ev = NETDEV_DOWN THEN <<"neigh_ifdown", "fib6_run_gc">>
                     ELSE IF ev = NETDEV_CHANGEADDR THEN <<"neigh_changeaddr", "fib6_run_gc">>
                     ELSE <<>>)
              /\ nd_tbl' = (IF ev \in {NETDEV_DOWN, NETDEV_CHANGEADDR}
                            THEN [a \in NeighKeys |-> NoNeigh] ELSE nd_tbl)
              /\ Len(sent') = Cardinality(as)
              /\ \A a \in as :
                    \E i \in 1..Len(sent') :
                        LET p == sent'[i].pkt
                        IN  /\ UnsolicitedFor(p, a)
                            /\ p.override <=> IFA_F_OPTIMISTIC \notin net.addrs[a].flags
                            /\ p.opt = (IF net.dev.addr_len = 0 THEN <<>>
                                        ELSE <<ND_OPT_TARGET_LL_ADDR, 1>> \o net.dev.dev_addr)]_vars

\* NETDEV_CHANGEADDR on a router with ndisc_notify and a router in its
\* cache: the cache is empty, and two NAs with the router flag went out
C36_Witness ==
    /\ NetdevStep(last) /\ last.event = NETDEV_CHANGEADDR /\ last.env = EnvOk
    /\ jiffies = 1
    /\ idev.cnf.ndisc_notify /\ idev.cnf.forwarding
    /\ CallNames(calls) = <<"neigh_changeaddr", "fib6_run_gc">>
    /\ rt6[RouterLL].present /\ ~nd_tbl[RouterLL].present
    /\ Len(sent) = 2
    /\ sent[1].pkt.target = OwnGlobal /\ sent[2].pkt.target = OwnLL
    /\ sent[1].pkt.router /\ sent[1].pkt.override /\ ~sent[1].pkt.solicited

(***************************************************************************)
(* The reachable time under an RA and a write to the sysctl.               *)
(***************************************************************************)
\* reachable_time is a value neigh_rand_reach_time gives for the base
\* that is stored: at least half of it and below one and a half times it
ReachableOfBase(p) ==
    /\ 2 * p.reachable_time >= p.base_reachable_time - 1
    /\ 2 * p.reachable_time <= 3 * p.base_reachable_time

\* C37, as the specification has it: once the RA handler and the write to
\* the sysctl have both run to their end, in whatever interleaving,
\* reachable_time lies between half and one and a half times the
\* base_reachable_time that is stored.
C37_WritersSerialized ==
    (tasks.ra.pc = "done" /\ tasks.sysctl.pc = "done") => ReachableOfBase(idev.nd_parms)
====
